---------------------------- MODULE Spec2Model ----------------------------
(***************************************************************************)
(* Test Record Reconciliation Engine of SpeakingTestApp.                   *)
(*                                                                         *)
(* The records root is a two-level file store: class directories and the   *)
(* quarantine directory "Duplicates".  A file name is a Python string,     *)
(* modelled as the sequence of its characters (one-character strings).     *)
(* A file body is the sequence of its newline-terminated lines; a line is  *)
(* a sequence of tokens: single characters for everything the code reads   *)
(* character by character (keys, numbers, names), and one token for each   *)
(* literal word the code writes and searches as a whole.                   *)
(***************************************************************************)
EXTENDS Integers, Sequences, FiniteSets, TLC

VARIABLES
    fs,        \* records root: directory name -> (file name -> body)
    pre,       \* the store the Resolver or pipeline run of the last step
               \* started from; the store itself after any other step
    last,      \* what the run of the last step reported; Idle after any
               \* other step
    app,       \* the interactive application's session fields
    now,       \* index of the current wall-clock minute in Clock
    starts,    \* number of tests started so far
    runs,      \* number of batch script runs so far
    call,      \* a function of the code applied on its own: [fn, arg, out]
    root       \* the directory Records exists

vars == <<fs, pre, last, app, now, starts, runs, call, root>>

-----------------------------------------------------------------------------
(* Python str operations on character sequences                            *)

Digits == <<"0", "1", "2", "3", "4", "5", "6", "7", "8", "9">>

\* FULLWIDTH DIGIT ONE, what a Japanese input method types for 1: a decimal
\* digit for str.isdigit(), int() and \d
WideOne == "U+FF11"

DigitSet == {Digits[i] : i \in 1..10} \cup {WideOne}

\* characters of the model in ASCII order (sorted() compares code points)
Alphabet ==
    <<" ", "%", ".", "/", "0", "1", "2", "3", "4", "5", "6", "7", "8", "9",
      ":", "=", "A", "C", "D", "E", "F", "I", "O", "P", "R", "S", "T", "U", "_",
      "a", "b", "c", "d", "e", "g", "i", "k", "l", "m", "n", "o", "p",
      "r", "s", "t", "u", "x", "y", WideOne>>

CharRank(c) == CHOOSE i \in 1..Len(Alphabet) : Alphabet[i] = c

DigitVal(c) == IF c = WideOne THEN 1 ELSE (CHOOSE i \in 1..10 : Digits[i] = c) - 1

\* s[a:b] with 0-based Python bounds, clipped to the string
Slice(s, a, b) ==
    LET hi == IF b > Len(s) THEN Len(s) ELSE b
    IN  IF a >= hi THEN << >> ELSE SubSeq(s, a + 1, hi)

StartsWith(s, p) == Len(s) >= Len(p) /\ SubSeq(s, 1, Len(p)) = p

EndsWith(s, p) == Len(s) >= Len(p) /\ SubSeq(s, Len(s) - Len(p) + 1, Len(s)) = p

\* p in s
Contains(s, p) ==
    \E i \in 0..(Len(s) - Len(p)) : SubSeq(s, i + 1, i + Len(p)) = p

\* s.replace(p, '') : leftmost non-overlapping occurrences removed
RECURSIVE Remove(_, _)
Remove(s, p) ==
    IF s = << >> THEN << >>
    ELSE IF StartsWith(s, p) THEN Remove(SubSeq(s, Len(p) + 1, Len(s)), p)
    ELSE <<Head(s)>> \o Remove(Tail(s), p)

\* s.replace(p, q)
RECURSIVE Replace(_, _, _)
Replace(s, p, q) ==
    IF s = << >> THEN << >>
    ELSE IF StartsWith(s, p) THEN q \o Replace(SubSeq(s, Len(p) + 1, Len(s)), p, q)
    ELSE <<Head(s)>> \o Replace(Tail(s), p, q)

\* s.split(c) : always at least one piece
RECURSIVE SplitAcc(_, _, _)
SplitAcc(s, c, cur) ==
    IF s = << >> THEN <<cur>>
    ELSE IF Head(s) = c THEN <<cur>> \o SplitAcc(Tail(s), c, << >>)
    ELSE SplitAcc(Tail(s), c, Append(cur, Head(s)))

Split(s, c) == SplitAcc(s, c, << >>)

\* s.isdigit()
IsDigit(s) == s # << >> /\ \A i \in 1..Len(s) : s[i] \in DigitSet

\* int(s) for a string of digits
RECURSIVE IntOf(_)
IntOf(s) ==
    IF s = << >> THEN 0
    ELSE 10 * IntOf(SubSeq(s, 1, Len(s) - 1)) + DigitVal(s[Len(s)])

\* str(n) for n >= 0
RECURSIVE StrOf(_)
StrOf(n) ==
    IF n < 10 THEN <<Digits[n + 1]>>
    ELSE StrOf(n \div 10) \o <<Digits[(n % 10) + 1]>>

\* s.zfill(w)
RECURSIVE ZFill(_, _)
ZFill(s, w) == IF Len(s) >= w THEN s ELSE ZFill(<<"0">> \o s, w)

\* os.path.splitext(name) : split at the last dot that is not a leading dot
RECURSIVE LastDot(_, _)
LastDot(s, i) ==
    IF i <= 1 THEN 0
    ELSE IF s[i] = "." THEN i
    ELSE LastDot(s, i - 1)

SplitExt(s) ==
    LET d == LastDot(s, Len(s))
    IN  IF d = 0 THEN <<s, << >> >>
        ELSE <<SubSeq(s, 1, d - 1), SubSeq(s, d, Len(s))>>

\* a < b as Python compares strings
RECURSIVE StrLess(_, _)
StrLess(a, b) ==
    IF b = << >> THEN FALSE
    ELSE IF a = << >> THEN TRUE
    ELSE IF Head(a) = Head(b) THEN StrLess(Tail(a), Tail(b))
    ELSE CharRank(Head(a)) < CharRank(Head(b))

\* the sequences listing every element of the finite set S once
RECURSIVE Orders(_)
Orders(S) ==
    IF S = {} THEN {<< >>}
    ELSE UNION {{<<x>> \o o : o \in Orders(S \ {x})} : x \in S}

\* sorted(S) for a set of strings
RECURSIVE Sorted(_)
Sorted(S) ==
    IF S = {} THEN << >>
    ELSE LET m == CHOOSE x \in S : \A y \in S \ {x} : StrLess(x, y)
         IN  <<m>> \o Sorted(S \ {m})

Range(s) == {s[i] : i \in 1..Len(s)}

-----------------------------------------------------------------------------
(* Literals of the code                                                    *)

SpeakingTest == <<"S", "p", "e", "a", "k", "i", "n", "g", "T", "e", "s", "t">>

SpeakingTest_ == SpeakingTest \o <<"_">>

DotTxt == <<".", "t", "x", "t">>

ProcessedMark == <<"_", "P", "R", "O", "C", "E", "S", "S", "E", "D">> \o DotTxt

UnprocessedMark == <<"_", "U", "n", "p", "r", "o", "c", "e", "s", "s", "e", "d">> \o DotTxt

DupMark == <<"_", "d", "u", "p">>

Duplicates == <<"D", "u", "p", "l", "i", "c", "a", "t", "e", "s">>

-----------------------------------------------------------------------------
(* find_duplicates.py : Identity & Timestamp Parser                        *)

NoParse == [ok |-> FALSE, class |-> << >>, student |-> << >>, ts |-> << >>]

parse_filename(filename) ==
    IF ~StartsWith(filename, SpeakingTest_) \/ ~EndsWith(filename, DotTxt)
    THEN NoParse
    ELSE LET parts == Split(Remove(filename, DotTxt), "_")
         IN  IF Len(parts) >= 4 /\ parts[1] = SpeakingTest
             THEN [ok |-> TRUE, class |-> parts[2], student |-> parts[3],
                   ts |-> parts[4]]
             ELSE NoParse

\* a variant that compares the keys as typed
NormalizeAsTyped(student_id) == student_id

normalize_student_id(student_id) ==
    IF IsDigit(student_id) THEN StrOf(IntOf(student_id)) ELSE student_id

\* an instant is <<year, month, day, hour, minute>>, compared field by field
Sentinel == <<1900, 1, 1, 0, 0>>

RECURSIVE TupleLess(_, _)
TupleLess(a, b) ==
    IF a = << >> THEN FALSE
    ELSE IF Head(a) = Head(b) THEN TupleLess(Tail(a), Tail(b))
    ELSE Head(a) < Head(b)

IsLeap(y) == (y % 4 = 0 /\ y % 100 # 0) \/ y % 400 = 0

DaysInMonth(y, m) ==
    IF m = 2 THEN (IF IsLeap(y) THEN 29 ELSE 28)
    ELSE IF m \in {4, 6, 9, 11} THEN 30 ELSE 31

\* datetime(int(year), int(month), int(day), int(hour), int(minute)); any
\* ValueError is caught by the caller and gives the sentinel
datetime_of(year, month, day, hour, minute) ==
    IF ~(IsDigit(year) /\ IsDigit(month) /\ IsDigit(day) /\ IsDigit(hour)
         /\ IsDigit(minute))
    THEN Sentinel
    ELSE LET y == IntOf(year)
             m == IntOf(month)
             d == IntOf(day)
             h == IntOf(hour)
             mi == IntOf(minute)
         IN  IF /\ y >= 1 /\ y <= 9999
                /\ m >= 1 /\ m <= 12
                /\ d >= 1 /\ d <= DaysInMonth(y, m)
                /\ h <= 23 /\ mi <= 59
             THEN <<y, m, d, h, mi>>
             ELSE Sentinel

get_timestamp_for_sorting(timestamp_str) ==
    LET parts == Split(timestamp_str, ".")
    IN  IF Len(parts) = 4
        THEN LET year == IF Len(parts[1]) = 2 THEN <<"2", "0">> \o parts[1]
                         ELSE parts[1]
                 time == parts[4]
                 hour == IF Len(time) >= 4 THEN Slice(time, 0, 2) ELSE <<"0", "0">>
                 minute == IF Len(time) >= 4 THEN Slice(time, 2, 4) ELSE <<"0", "0">>
             IN  datetime_of(year, parts[2], parts[3], hour, minute)
        ELSE Sentinel

\* speaking_test.py, the timestamp parse inlined in find_and_move_duplicates
app_timestamp(timestamp) ==
    LET ts_parts == Split(timestamp, ".")
    IN  IF Len(ts_parts) = 4
        THEN LET year == IF Len(ts_parts[1]) = 2 THEN <<"2", "0">> \o ts_parts[1]
                         ELSE ts_parts[1]
                 time == ts_parts[4]
                 hour == IF Len(time) >= 2 THEN Slice(time, 0, 2) ELSE <<"0", "0">>
                 minute == IF Len(time) >= 4 THEN Slice(time, 2, 4) ELSE <<"0", "0">>
             IN  datetime_of(year, ts_parts[2], ts_parts[3], hour, minute)
        ELSE Sentinel

-----------------------------------------------------------------------------
(* find_duplicates.py : Duplicate Resolver                                 *)

\* the instant of a timestamp string as the script ("script") or the
\* application ("app") parses it
Stamp(impl, ts) ==
    IF impl = "script" THEN get_timestamp_for_sorting(ts) ELSE app_timestamp(ts)

\* student_files[key].append(entry) on an insertion-ordered dict
RECURSIVE AddToGroups(_, _, _)
AddToGroups(groups, key, entry) ==
    IF groups = << >> THEN << [key |-> key, files |-> <<entry>>] >>
    ELSE IF Head(groups).key = key
    THEN <<[key |-> key, files |-> Append(Head(groups).files, entry)]>> \o Tail(groups)
    ELSE <<Head(groups)>> \o AddToGroups(Tail(groups), key, entry)

\* the scan loop: listing is os.listdir(class_folder) in the order it came
RECURSIVE GroupFiles(_, _, _)
GroupFiles(impl, listing, groups) ==
    IF listing = << >> THEN groups
    ELSE LET filename == Head(listing)
             parsed == parse_filename(filename)
         IN  IF Contains(filename, ProcessedMark) \/ ~parsed.ok
             THEN GroupFiles(impl, Tail(listing), groups)
             ELSE GroupFiles(impl, Tail(listing),
                      AddToGroups(groups,
                          <<parsed.class, normalize_student_id(parsed.student)>>,
                          [filename |-> filename,
                           datetime |-> Stamp(impl, parsed.ts)]))

\* a variant of the insertion that puts x before the entries of its own
\* instant: the sort is no longer stable
RECURSIVE InsertBeforeEqual(_, _)
InsertBeforeEqual(sorted, x) ==
    IF sorted = << >> THEN <<x>>
    ELSE IF ~TupleLess(Head(sorted).datetime, x.datetime) THEN <<x>> \o sorted
    ELSE <<Head(sorted)>> \o InsertBeforeEqual(Tail(sorted), x)

\* list.sort(key = datetime) : stable, oldest first
RECURSIVE InsertByDatetime(_, _)
InsertByDatetime(sorted, x) ==
    IF sorted = << >> THEN <<x>>
    ELSE IF TupleLess(x.datetime, Head(sorted).datetime) THEN <<x>> \o sorted
    ELSE <<Head(sorted)>> \o InsertByDatetime(Tail(sorted), x)

RECURSIVE SortByDatetime(_)
SortByDatetime(files) ==
    IF files = << >> THEN << >>
    ELSE InsertByDatetime(SortByDatetime(SubSeq(files, 1, Len(files) - 1)),
                          files[Len(files)])

\* a variant that marks the newest file and keeps the oldest
MarkDuplicatesKeepOldest(files) ==
    [i \in 1..Len(files) |->
        [filename |-> files[i].filename, is_duplicate |-> i > 1]]

\* a variant off by one: the two newest files are kept
MarkDuplicatesKeepTwo(files) ==
    [i \in 1..Len(files) |->
        [filename |-> files[i].filename, is_duplicate |-> i < Len(files) - 1]]

\* a variant that marks every file of the bucket, the newest too
MarkDuplicatesAll(files) ==
    [i \in 1..Len(files) |->
        [filename |-> files[i].filename, is_duplicate |-> TRUE]]

\* is_duplicate = (i < len(files) - 1) for the sorted files of one bucket
MarkDuplicates(files) ==
    [i \in 1..Len(files) |->
        [filename |-> files[i].filename, is_duplicate |-> i < Len(files)]]

RECURSIVE FlattenGroups(_)
FlattenGroups(groups) ==
    IF groups = << >> THEN << >>
    ELSE (IF Len(Head(groups).files) > 1
          THEN MarkDuplicates(SortByDatetime(Head(groups).files))
          ELSE << >>) \o FlattenGroups(Tail(groups))

find_duplicates_in_folder(impl, listing) ==
    FlattenGroups(GroupFiles(impl, listing, << >>))

\* the first free name <base>_dup<counter><ext> in the quarantine directory
RECURSIVE FreeDupName(_, _, _, _)
FreeDupName(taken, base, ext, counter) ==
    LET candidate == base \o DupMark \o StrOf(counter) \o ext
    IN  IF candidate \in taken THEN FreeDupName(taken, base, ext, counter + 1)
        ELSE candidate

\* a variant without the os.path.exists test: the file's own name, always
DestNameOverwrite(taken, filename) == filename

\* dest_path for filename in the quarantine directory holding the names taken
DestName(taken, filename) ==
    IF filename \in taken
    THEN FreeDupName(taken, SplitExt(filename)[1], SplitExt(filename)[2], 1)
    ELSE filename

\* shutil.move(src_dir/name, Duplicates/dest)
MoveFile(store, dir, name, dest) ==
    [store EXCEPT
        ![dir] = [n \in (DOMAIN store[dir]) \ {name} |-> store[dir][n]],
        ![Duplicates] = [n \in (DOMAIN store[Duplicates]) \cup {dest} |->
                            IF n = dest THEN store[dir][name]
                            ELSE store[Duplicates][n]]]

\* a variant without the try/except around the move: the first failure ends
\* the loop over the folder's duplicates
RECURSIVE MoveDuplicatesAbort(_, _, _, _)
MoveDuplicatesAbort(duplicates, dir, locked, st) ==
    IF duplicates = << >> THEN st
    ELSE LET d == Head(duplicates)
             dest == DestName(DOMAIN st.store[Duplicates], d.filename)
         IN  IF ~d.is_duplicate
             THEN MoveDuplicatesAbort(Tail(duplicates), dir, locked, st)
             ELSE IF <<dir, d.filename>> \in locked
             THEN [st EXCEPT !.failed = @ \cup {<<dir, d.filename>>}]
             ELSE MoveDuplicatesAbort(Tail(duplicates), dir, locked,
                      [store |-> MoveFile(st.store, dir, d.filename, dest),
                       moved |-> st.moved + 1,
                       log |-> Append(st.log, <<dir, d.filename, dest>>),
                       failed |-> st.failed])

\* st = [store, moved, log, failed]; locked: the files whose move raises
RECURSIVE move_duplicates(_, _, _, _)
move_duplicates(duplicates, dir, locked, st) ==
    IF duplicates = << >> THEN st
    ELSE LET d == Head(duplicates)
             dest == DestName(DOMAIN st.store[Duplicates], d.filename)
         IN  IF ~d.is_duplicate
             THEN move_duplicates(Tail(duplicates), dir, locked, st)
             ELSE IF <<dir, d.filename>> \in locked
             THEN move_duplicates(Tail(duplicates), dir, locked,
                      [st EXCEPT !.failed = @ \cup {<<dir, d.filename>>}])
             ELSE move_duplicates(Tail(duplicates), dir, locked,
                      [store |-> MoveFile(st.store, dir, d.filename, dest),
                       moved |-> st.moved + 1,
                       log |-> Append(st.log, <<dir, d.filename, dest>>),
                       failed |-> st.failed])

ClassDirs(store) == (DOMAIN store) \ {Duplicates}

\* the loop over the class folders, in the order classes, each scanned in
\* the order scan[class]
RECURSIVE ResolveClasses(_, _, _, _, _)
ResolveClasses(impl, classes, scan, locked, st) ==
    IF classes = << >> THEN st
    ELSE ResolveClasses(impl, Tail(classes), scan, locked,
             move_duplicates(find_duplicates_in_folder(impl, scan[Head(classes)]),
                             Head(classes), locked, st))

-----------------------------------------------------------------------------
(* Record bodies                                                           *)

\* n copies of the token c
Rep(c, n) == [i \in 1..n |-> c]

\* s.strip() on tokens
RECURSIVE LStrip(_)
LStrip(s) == IF s # << >> /\ Head(s) = " " THEN LStrip(Tail(s)) ELSE s

RECURSIVE RStrip(_)
RStrip(s) ==
    IF s # << >> /\ s[Len(s)] = " " THEN RStrip(SubSeq(s, 1, Len(s) - 1)) ELSE s

Strip(s) == RStrip(LStrip(s))

\* s.ljust(w), s.rjust(w)
LJust(s, w) == IF Len(s) >= w THEN s ELSE s \o Rep(" ", w - Len(s))

RJust(s, w) == IF Len(s) >= w THEN s ELSE Rep(" ", w - Len(s)) \o s

\* the longest prefix of s made of digits
RECURSIVE DigitRun(_)
DigitRun(s) ==
    IF s # << >> /\ Head(s) \in DigitSet THEN <<Head(s)>> \o DigitRun(Tail(s))
    ELSE << >>

\* re.search(pat \s* (\d+) suffix, line) : the number of the first match,
\* -1 when there is none
RECURSIVE SearchNumber(_, _, _)
SearchNumber(line, pat, suffix) ==
    IF Len(line) < Len(pat) THEN -1
    ELSE LET rest == LStrip(SubSeq(line, Len(pat) + 1, Len(line)))
             run == DigitRun(rest)
         IN  IF /\ StartsWith(line, pat)
                /\ run # << >>
                /\ StartsWith(SubSeq(rest, Len(run) + 1, Len(rest)), suffix)
             THEN IntOf(run)
             ELSE SearchNumber(Tail(line), pat, suffix)

\* the separator test '=' * 20 in text, for one line
HasRule(line) == Contains(line, Rep("=", 20))

\* round(total / max_score * 100) : Python rounds halves to even; the float
\* quotient is exact enough for this below max_score = 40
Percentage(total, max_score) ==
    LET q == (100 * total) \div max_score
        r == (100 * total) % max_score
    IN  IF 2 * r < max_score THEN q
        ELSE IF 2 * r > max_score THEN q + 1
        ELSE IF q % 2 = 0 THEN q ELSE q + 1

RECURSIVE SumOver(_, _)
SumOver(f, S) ==
    IF S = {} THEN 0
    ELSE LET x == CHOOSE y \in S : TRUE IN f[x] + SumOver(f, S \ {x})

\* a variant that takes the smallest value
RECURSIVE MinOver(_, _)
MinOver(f, S) ==
    LET x == CHOOSE y \in S : TRUE
    IN  IF S = {x} THEN f[x]
        ELSE LET m == MinOver(f, S \ {x}) IN IF f[x] < m THEN f[x] ELSE m

RECURSIVE MaxOver(_, _)
MaxOver(f, S) ==
    LET x == CHOOSE y \in S : TRUE
    IN  IF S = {x} THEN f[x]
        ELSE LET m == MaxOver(f, S \ {x}) IN IF f[x] > m THEN f[x] ELSE m

\* d[k] = v on a dict held as a function
Put(d, k, v) == [x \in (DOMAIN d) \cup {k} |-> IF x = k THEN v ELSE d[x]]

EmptyDict == [x \in {} |-> 0]

\* a directory without files
EmptyDir == [n \in {} |-> << >>]

-----------------------------------------------------------------------------
(* speaking_test.py : answer lines, live scoring and live header           *)

\* configuration loaded by load_mouse_config: position -> points, name
point_values == <<5, 0, 3, 2, 1>>

point_names == << <<"Correct">>, <<"Incorrect">>, <<"Fluent">>, <<"Partial">>,
                  <<"Attempted">> >>

\* os.path.splitext(os.path.basename(image_files[image_num]))[0]
ImageLabel(image_num) == IF image_num = 0 THEN <<"intro">> ELSE <<"slide">>

\* ' '.join(map(str, clicks)) with clicks[button - 1] = 1
Clicks(button) ==
    [i \in 1..9 |-> IF i % 2 = 0 THEN " "
                    ELSE IF (i + 1) \div 2 = button THEN "1" ELSE "0"]

\* the line save_record appends
AnswerLine(image_num, button) ==
    <<"Question", " ">> \o ZFill(StrOf(image_num), 2) \o <<":", " ">>
        \o StrOf(point_values[button]) \o <<" ", "=", " ">> \o Clicks(button)
        \o <<" ">> \o ImageLabel(image_num)

save_record(content, image_num, button) ==
    Append(content, AnswerLine(image_num, button))

\* the question number of a line as calculate_score and add_header read it:
\* int(line.split(":")[0].replace("Question", "").strip()), -1 when int() raises
LiveQuestionNum(line) ==
    LET q_num_str == Strip(Remove(Split(line, ":")[1], <<"Question">>))
    IN  IF IsDigit(q_num_str) THEN IntOf(q_num_str) ELSE -1

\* the points of a line as calculate_score reads them, -1 when skipped
LivePoints(line) ==
    LET parts == Split(line, ":")
        rest == IF Len(parts) >= 2 THEN Strip(parts[2]) ELSE << >>
        point_str == Strip(Split(rest, "=")[1])
    IN  IF Len(parts) >= 2 /\ "=" \in Range(rest) /\ IsDigit(point_str)
        THEN IntOf(point_str) ELSE -1

RECURSIVE LiveScores(_, _)
LiveScores(lines, question_scores) ==
    IF lines = << >> THEN question_scores
    ELSE LET line == Head(lines)
         IN  IF /\ StartsWith(line, <<"Question">>)
                /\ LiveQuestionNum(line) >= 0
                /\ LivePoints(line) >= 0
             THEN LiveScores(Tail(lines),
                      Put(question_scores, LiveQuestionNum(line), LivePoints(line)))
             ELSE LiveScores(Tail(lines), question_scores)

\* SpeakingTestApp.calculate_score : <<total_score, max_score, percentage>>
app_calculate_score(content) ==
    LET question_scores == LiveScores(content, EmptyDict)
        num_questions == Cardinality(DOMAIN question_scores)
        max_point_value == MaxOver(point_values, DOMAIN point_values)
        total_score == SumOver(question_scores, DOMAIN question_scores)
        max_score == num_questions * max_point_value
    IN  IF num_questions = 0 THEN <<0, 0, 0>>
        ELSE <<total_score, max_score,
               IF max_score > 0 THEN Percentage(total_score, max_score) ELSE 0>>

\* the set of question numbers add_header_to_output_file counts
LiveQuestionNums(content) ==
    {LiveQuestionNum(content[i]) : i \in {j \in 1..Len(content) :
        StartsWith(content[j], <<"Question">>) /\ LiveQuestionNum(content[j]) >= 0}}

Rule67 == Rep("=", 67)

SummaryLine(total_questions, max_score, total_score, percentage) ==
    <<"Total Questions:", " ">> \o StrOf(total_questions)
        \o <<" ", " ", " ", "Max", " ", "Score:", " ">> \o StrOf(max_score)
        \o <<" ", " ", " ", "Score:", " ">> \o StrOf(total_score)
        \o <<" ", " ", " ", "Percentage:", " ">> \o StrOf(percentage) \o <<"%">>

LegendLine(points, name) == StrOf(points) \o <<" ", "=", " ">> \o name

\* a variant of the insertion that compares the points only
RECURSIVE InsertByPointsOnly(_, _)
InsertByPointsOnly(sorted, x) ==
    IF sorted = << >> THEN <<x>>
    ELSE IF x.points > Head(sorted).points THEN <<x>> \o sorted
    ELSE <<Head(sorted)>> \o InsertByPointsOnly(Tail(sorted), x)

\* sort(key = (-points, position)) of the entries scale[i] = [points, name, position]
RECURSIVE InsertByPoints(_, _)
InsertByPoints(sorted, x) ==
    IF sorted = << >> THEN <<x>>
    ELSE IF \/ x.points > Head(sorted).points
            \/ (x.points = Head(sorted).points /\ x.position < Head(sorted).position)
    THEN <<x>> \o sorted
    ELSE <<Head(sorted)>> \o InsertByPoints(Tail(sorted), x)

RECURSIVE SortScale(_)
SortScale(scale) ==
    IF scale = << >> THEN << >>
    ELSE InsertByPoints(SortScale(Tail(scale)), Head(scale))

RECURSIVE LegendLines(_)
LegendLines(sorted_scale) ==
    IF sorted_scale = << >> THEN << >>
    ELSE (IF Head(sorted_scale).points # 0 \/ Head(sorted_scale).name # << >>
          THEN <<LegendLine(Head(sorted_scale).points, Head(sorted_scale).name)>>
          ELSE << >>) \o LegendLines(Tail(sorted_scale))

AppScale ==
    [position \in 1..5 |-> [points |-> point_values[position],
                            name |-> point_names[position],
                            position |-> position]]

\* the point scale of add_header_to_output_file for the configuration
\* values, names: the positions 1 to 5 with points or a name, as
\* (points, name, position)
IncludedScale(values, names) ==
    LET Included(e) == e.points # 0 \/ e.name # << >>
    IN  SelectSeq([position \in 1..5 |-> [points |-> values[position],
                                          name |-> names[position],
                                          position |-> position]], Included)

\* the legend add_header_to_output_file writes: the included positions
\* sorted, a line each
LiveLegend(sorted_scale) ==
    [i \in 1..Len(sorted_scale) |->
        LegendLine(sorted_scale[i].points, sorted_scale[i].name)]

\* SpeakingTestApp.add_header_to_output_file : the new body of the file
\* a variant that writes a header and drops the existing content
HeaderWithoutContent(filename, student_id, student_name, existing_content, total_score, max_score, percentage) ==
    <<filename, Rule67, SummaryLine(0, max_score, total_score, percentage), Rule67>>

add_header_to_output_file(filename, student_id, student_name, existing_content, total_score, max_score, percentage) ==
    LET total_questions == Cardinality(LiveQuestionNums(existing_content))
        student_display == IF IsDigit(student_id) THEN ZFill(student_id, 2)
                           ELSE student_id
        header ==
            <<filename>>
            \o << <<"Student:", " ">> \o student_display
                  \o (IF student_name # << >> THEN <<" ">> \o student_name ELSE << >>) >>
            \o <<Rule67>>
            \o <<SummaryLine(total_questions, max_score, total_score, percentage)>>
            \o <<Rule67>>
            \o LiveLegend(SortScale(IncludedScale(point_values, point_names)))
            \o << << >> >>
    IN  header \o existing_content

\* show_score_summary : the body after the header is put before content
Completed(filename, student_id, student_name, content, score) ==
    add_header_to_output_file(filename, student_id, student_name, content,
                              score[1], score[2], score[3])

-----------------------------------------------------------------------------
(* process_and_compile.py : Answer/Score Decoder and Header Synthesizer    *)

\* a byte that is no UTF-8: f.read() raises UnicodeDecodeError on a body
\* that holds one
BadByte == "0xFF"

\* a variant that decodes leniently: every body can be read
ReadableAlways(content) == TRUE

\* open(filepath, 'r', encoding='utf-8') and f.read() succeed
Readable(content) == \A i \in 1..Len(content) : BadByte \notin Range(content[i])

\* a variant of the header test that finds no header in any content
HeaderNever(content) == FALSE

\* the header test of parse_incomplete_test on the whole content
has_header(content) ==
    \E i \in 1..Len(content) :
        \/ HasRule(content[i])
        \/ "Total Questions:" \in Range(content[i])
        \/ "Student:" \in Range(content[i])

\* s is \s+ [\d\s]+ \s+ .+ : a prefix of digits and blanks that starts and
\* ends with a blank, is at least 3 long, and is followed by something
TailMatches(s) ==
    \E n \in 3..(Len(s) - 1) :
        /\ \A i \in 1..n : s[i] = " " \/ s[i] \in DigitSet
        /\ s[1] = " "
        /\ s[n] = " "

\* re.match(r'Question\s+(\d+):\s+(\d+)\s+=\s+([\d\s]+)\s+(.+)', line) :
\* [ok, q_num, points]
MatchQuestion(line) ==
    LET a == IF line = << >> THEN << >> ELSE Tail(line)
        a1 == LStrip(a)
        q == DigitRun(a1)
        b == SubSeq(a1, Len(q) + 1, Len(a1))
        b1 == IF b = << >> THEN << >> ELSE LStrip(Tail(b))
        pts == DigitRun(b1)
        c == SubSeq(b1, Len(pts) + 1, Len(b1))
        c1 == LStrip(c)
    IN  IF /\ line # << >> /\ Head(line) = "Question"
           /\ a # << >> /\ Head(a) = " "
           /\ q # << >>
           /\ b # << >> /\ Head(b) = ":"
           /\ Len(b) >= 2 /\ b[2] = " "
           /\ pts # << >>
           /\ c # << >> /\ Head(c) = " "
           /\ c1 # << >> /\ Head(c1) = "="
           /\ TailMatches(Tail(c1))
        THEN [ok |-> TRUE, q_num |-> IntOf(q), points |-> IntOf(pts)]
        ELSE [ok |-> FALSE, q_num |-> 0, points |-> 0]

RECURSIVE ParseQuestions(_)
ParseQuestions(content) ==
    IF content = << >> THEN << >>
    ELSE LET line == Strip(Head(content))
             m == MatchQuestion(line)
         IN  (IF StartsWith(line, <<"Question">>) /\ m.ok
              THEN << <<m.q_num, m.points>> >> ELSE << >>)
             \o ParseQuestions(Tail(content))

\* [questions, has_header]
parse_incomplete_test(content) ==
    IF ~Readable(content) THEN [questions |-> << >>, has_header |-> TRUE]
    ELSE IF has_header(content) THEN [questions |-> << >>, has_header |-> TRUE]
    ELSE [questions |-> ParseQuestions(content), has_header |-> FALSE]

\* a variant in which the first entry of a question number wins
RECURSIVE QuestionDictKeepFirst(_, _)
QuestionDictKeepFirst(questions, question_dict) ==
    IF questions = << >> THEN question_dict
    ELSE QuestionDictKeepFirst(Tail(questions),
             IF Head(questions)[1] \in DOMAIN question_dict THEN question_dict
             ELSE Put(question_dict, Head(questions)[1], Head(questions)[2]))

RECURSIVE QuestionDict(_, _)
QuestionDict(questions, question_dict) ==
    IF questions = << >> THEN question_dict
    ELSE QuestionDict(Tail(questions),
                      Put(question_dict, Head(questions)[1], Head(questions)[2]))

\* <<total_score, max_score, percentage, total_questions>>
calculate_score(questions) ==
    LET question_dict == QuestionDict(questions, EmptyDict)
        max_point_value == MaxOver(question_dict, DOMAIN question_dict)
        total_questions == Cardinality(DOMAIN question_dict)
        total_score == SumOver(question_dict, DOMAIN question_dict)
        max_score == total_questions * max_point_value
    IN  IF DOMAIN question_dict = {} THEN <<0, 0, 0, 0>>
        ELSE <<total_score, max_score,
               IF max_score > 0 THEN Percentage(total_score, max_score) ELSE 0,
               total_questions>>

DefaultScale ==
    << [points |-> 5, name |-> <<"Correct">>],
       [points |-> 0, name |-> <<"Incorrect">>],
       [points |-> 3, name |-> <<"Fluent">>],
       [points |-> 2, name |-> <<"Partial">>],
       [points |-> 1, name |-> <<"Attempted">>] >>

\* re.match(r'(\d+)\s*=\s*(.+)', line.strip()) : [ok, points, name]
MatchLegend(line) ==
    LET l == Strip(line)
        pts == DigitRun(l)
        a == LStrip(SubSeq(l, Len(pts) + 1, Len(l)))
        name == IF a = << >> THEN << >> ELSE LStrip(Tail(a))
    IN  IF pts # << >> /\ a # << >> /\ Head(a) = "=" /\ name # << >>
        THEN [ok |-> TRUE, points |-> IntOf(pts), name |-> Strip(name)]
        ELSE [ok |-> FALSE, points |-> 0, name |-> << >>]

\* the line loop of get_point_scale_from_directory over one file
RECURSIVE ScanScale(_, _, _)
ScanScale(lines, in_scale_section, point_scale) ==
    IF lines = << >> THEN point_scale
    ELSE LET line == Head(lines)
             m == MatchLegend(line)
         IN  IF HasRule(line) /\ in_scale_section THEN point_scale
             ELSE IF HasRule(line) THEN ScanScale(Tail(lines), TRUE, point_scale)
             ELSE IF /\ in_scale_section
                     /\ "=" \in Range(line)
                     /\ "Total Questions:" \notin Range(line)
                     /\ m.ok
                     /\ \A i \in 1..Len(point_scale) : point_scale[i].points # m.points
             THEN ScanScale(Tail(lines), in_scale_section,
                      Append(point_scale, [points |-> m.points, name |-> m.name]))
             ELSE ScanScale(Tail(lines), in_scale_section, point_scale)

RECURSIVE get_point_scale_from_directory(_, _, _)
get_point_scale_from_directory(dir, listing, point_scale) ==
    IF listing = << >> THEN DefaultScale
    ELSE LET file == Head(listing)
             found == IF Readable(dir[file])
                      THEN ScanScale(dir[file], FALSE, point_scale)
                      ELSE point_scale
         IN  IF EndsWith(file, DotTxt) /\ StartsWith(file, SpeakingTest_)
             THEN IF found # << >> THEN found
                  ELSE get_point_scale_from_directory(dir, Tail(listing), found)
             ELSE get_point_scale_from_directory(dir, Tail(listing), point_scale)

\* <<class_number, student_id, timestamp_str>>, all empty when the name has
\* fewer than four segments (None in the code, which tests them for truth)
extract_info_from_filename(filename) ==
    LET parts == Split(Remove(filename, DotTxt), "_")
    IN  IF Len(parts) >= 4 /\ parts[1] = SpeakingTest
        THEN <<parts[2], parts[3], parts[4]>>
        ELSE << << >>, << >>, << >> >>

WithPositions(scale) ==
    [i \in 1..Len(scale) |->
        [points |-> scale[i].points, name |-> scale[i].name, position |-> i]]

\* generate_complete_report : [raised, dir]; open(original_file, 'r') raises
\* FileNotFoundError when the class directory holds no file of that name
generate_complete_report(dir, original_filename, student_id, total_score, max_score, percentage, total_questions, point_scale) ==
    IF original_filename \notin DOMAIN dir THEN [raised |-> TRUE, dir |-> dir]
    ELSE LET original_content == dir[original_filename]
             student_display == IF IsDigit(student_id) THEN ZFill(student_id, 2)
                                ELSE student_id
             header ==
                 <<original_filename>>
                 \o (IF student_id # << >>
                     THEN << <<"Student:", " ">> \o student_display >> ELSE << >>)
                 \o <<Rule67>>
                 \o <<SummaryLine(total_questions, max_score, total_score, percentage)>>
                 \o <<Rule67>>
                 \o LegendLines(SortScale(WithPositions(point_scale)))
                 \o << << >> >>
         IN  [raised |-> FALSE,
              dir |-> [dir EXCEPT ![original_filename] = header \o original_content]]

-----------------------------------------------------------------------------
(* process_and_compile.py : Class Summary Compiler                         *)

\* the header scan of compile_class_summary over the lines of one record;
\* h = [student_id, student_name, total_score, max_score, percentage]
RECURSIVE ExtractHeader(_, _)
ExtractHeader(lines, h) ==
    IF lines = << >> THEN h
    ELSE LET line == Head(lines)
             text == Strip(Remove(line, <<"Student:">>))
             cut == IF " " \in Range(text)
                    THEN CHOOSE i \in 1..Len(text) :
                            text[i] = " " /\ \A j \in 1..(i - 1) : text[j] # " "
                    ELSE Len(text) + 1
             score == SearchNumber(line, <<"Score:">>, << >>)
             max == SearchNumber(line, <<"Max", " ", "Score:">>, << >>)
             pct == SearchNumber(line, <<"Percentage:">>, <<"%">>)
         IN  IF StartsWith(line, <<"Student:">>)
             THEN ExtractHeader(Tail(lines),
                      [h EXCEPT !.student_id = SubSeq(text, 1, cut - 1),
                                !.student_name = SubSeq(text, cut + 1, Len(text))])
             ELSE IF "Total Questions:" \in Range(line) /\ "Score:" \in Range(line)
             THEN ExtractHeader(Tail(lines),
                      [h EXCEPT !.total_score = IF score >= 0 THEN score ELSE @,
                                !.max_score = IF max >= 0 THEN max ELSE @,
                                !.percentage = IF pct >= 0 THEN pct ELSE @])
             ELSE ExtractHeader(Tail(lines), h)

NoHeader ==
    [student_id |-> << >>, student_name |-> << >>, total_score |-> 0,
     max_score |-> 0, percentage |-> 0]

\* the file loop of compile_class_summary : test_entries
RECURSIVE CollectEntries(_, _)
CollectEntries(dir, listing) ==
    IF listing = << >> THEN << >>
    ELSE LET filename == Head(listing)
             h == ExtractHeader(dir[filename], NoHeader)
             timestamp_str == extract_info_from_filename(filename)[3]
         IN  (IF /\ StartsWith(filename, SpeakingTest_)
                 /\ EndsWith(filename, DotTxt)
                 /\ ~Contains(filename, UnprocessedMark)
                 /\ ~Contains(filename, ProcessedMark)
                 /\ Readable(dir[filename])
                 /\ h.student_id # << >>
                 /\ timestamp_str # << >>
              THEN << [student_id |-> h.student_id,
                       student_name |-> h.student_name,
                       total_score |-> h.total_score,
                       max_score |-> h.max_score,
                       percentage |-> h.percentage,
                       timestamp |-> timestamp_str,
                       filename |-> filename] >>   \* filename: for reference only
              ELSE << >>) \o CollectEntries(dir, Tail(listing))

\* a variant that dates the summary by the day of the run
DateStrToday(first_ts, today) == today

\* date_str of the summary, from the first entry's timestamp; today is
\* datetime.now().strftime("%y.%m.%d")
DateStr(first_ts, today) ==
    LET parts == Split(first_ts, ".")
        yy == IF Len(parts[1]) = 4 THEN Slice(parts[1], 2, 4) ELSE parts[1]
    IN  IF Len(parts) >= 3 THEN yy \o <<".">> \o parts[2] \o <<".">> \o parts[3]
        ELSE today

SummaryName(class_number, date_str) ==
    class_number \o <<"_">> \o SpeakingTest \o <<".">> \o date_str \o DotTxt

SummaryHead(class_number, date_str) ==
    << <<"Class", " ">> \o class_number \o <<" ", "-", " ", "Speaking Test Summary">>,
       <<"Date:", " ", "2", "0">> \o Replace(date_str, <<".">>, <<"-">>),
       Rep("=", 80),
       << >> >>

EntryLine(entry, date_str) ==
    LET student_display == IF IsDigit(entry.student_id) THEN ZFill(entry.student_id, 2)
                           ELSE LJust(entry.student_id, 2)
        name_display == Slice(LJust(entry.student_name, 20), 0, 20)
        score_display == RJust(StrOf(entry.total_score) \o <<"/">>
                               \o StrOf(entry.max_score), 10)
        percent_display == RJust(StrOf(entry.percentage) \o <<"%">>, 5)
        ts_parts == Split(entry.timestamp, ".")
        time_part == IF Len(ts_parts) >= 4 THEN Slice(ts_parts[Len(ts_parts)], 0, 4)
                     ELSE <<"0", "0", "0", "0">>
    IN  date_str \o <<".">> \o time_part \o <<":", " ", " ", " ", "Student", " ">>
        \o student_display \o <<" ">> \o name_display \o <<":", " ", " ">>
        \o score_display \o <<" ", "=", " ">> \o percent_display

\* a variant that opens the summary file for appending
WriteSummaryAppend(dir, class_number, test_entries, date_str) ==
    [dir |-> Put(dir, SummaryName(class_number, date_str),
                 (IF SummaryName(class_number, date_str) \in DOMAIN dir
                  THEN dir[SummaryName(class_number, date_str)]
                  ELSE SummaryHead(class_number, date_str))
                 \o [i \in 1..Len(test_entries) |-> EntryLine(test_entries[i], date_str)]),
     summary_file |-> SummaryName(class_number, date_str),
     entries |-> Len(test_entries),
     test_entries |-> test_entries]

\* the write of compile_class_summary : the summary file named after date_str
WriteSummary(dir, class_number, test_entries, date_str) ==
    [dir |-> Put(dir, SummaryName(class_number, date_str),
                 SummaryHead(class_number, date_str)
                 \o [i \in 1..Len(test_entries) |-> EntryLine(test_entries[i], date_str)]),
     summary_file |-> SummaryName(class_number, date_str),
     entries |-> Len(test_entries),
     test_entries |-> test_entries]

\* compile_class_summary once test_entries is collected
SummaryOf(dir, class_number, test_entries, today) ==
    IF test_entries = << >>
    THEN [dir |-> dir, summary_file |-> << >>, entries |-> 0, test_entries |-> << >>]
    ELSE WriteSummary(dir, class_number, test_entries,
                      DateStr(test_entries[1].timestamp, today))

\* [dir, summary_file, entries] : the class directory after the call, the
\* name of the file written (empty when none) and the count returned
compile_class_summary(dir, class_number, listing, today) ==
    SummaryOf(dir, class_number, CollectEntries(dir, listing), today)

-----------------------------------------------------------------------------
(* process_and_compile.py : main                                           *)

\* os.rename(filepath, unprocessed_path) on the class directory
Rename(dir, filename, unprocessed_name) ==
    [n \in ((DOMAIN dir) \ {filename}) \cup {unprocessed_name}
        |-> IF n = unprocessed_name THEN dir[filename] ELSE dir[n]]

\* the end of the loop body: the report is written, the intermediate is
\* moved to the quarantine directory under the first free name
MoveUnprocessed(unprocessed_name, report, st) ==
    IF report.raised
    THEN [st EXCEPT !.dir = report.dir, !.raised = TRUE]
    ELSE [dir |-> [n \in (DOMAIN report.dir) \ {unprocessed_name} |-> report.dir[n]],
          quarantine |-> Put(st.quarantine,
                             DestName(DOMAIN st.quarantine, unprocessed_name),
                             report.dir[unprocessed_name]),
          raised |-> FALSE,
          processed |-> st.processed + 1]

\* the loop body from os.rename on; score is what calculate_score returned.
\* posix tells whether os.rename replaces an existing target (POSIX) or
\* raises FileExistsError (Windows)
RenameAndReport(filename, unprocessed_name, student_id, score, point_scale, posix, st) ==
    IF unprocessed_name \in DOMAIN st.dir /\ ~posix
    THEN [st EXCEPT !.raised = TRUE]
    ELSE MoveUnprocessed(unprocessed_name,
             generate_complete_report(Rename(st.dir, filename, unprocessed_name),
                 filename, student_id, score[1], score[2], score[3], score[4],
                 point_scale),
             st)

\* the loop body once the file is parsed and its name split
CompleteParsed(filename, parsed, info, point_scale, posix, st) ==
    IF \/ parsed.has_header
       \/ parsed.questions = << >>
       \/ info[1] = << >>
       \/ info[2] = << >>
    THEN st
    ELSE RenameAndReport(filename, Replace(filename, DotTxt, UnprocessedMark),
                         info[2], calculate_score(parsed.questions),
                         point_scale, posix, st)

\* the loop body for one name of the listing.
\* st = [dir, quarantine, raised, processed]
CompleteFile(filename, point_scale, posix, st) ==
    IF \/ ~StartsWith(filename, SpeakingTest_)
       \/ ~EndsWith(filename, DotTxt)
       \/ Contains(filename, UnprocessedMark)
       \/ Contains(filename, ProcessedMark)
       \/ filename \notin DOMAIN st.dir
    THEN st
    ELSE CompleteParsed(filename, parse_incomplete_test(st.dir[filename]),
                        extract_info_from_filename(filename), point_scale, posix, st)

\* the loop over sorted(os.listdir(item_path)) of one class folder; an
\* exception ends the run
RECURSIVE CompleteFiles(_, _, _, _)
CompleteFiles(listing, point_scale, posix, st) ==
    IF listing = << >> \/ st.raised THEN st
    ELSE CompleteFiles(Tail(listing), point_scale, posix,
                       CompleteFile(Head(listing), point_scale, posix, st))

\* the scan order of a directory restricted to the names it holds now
RECURSIVE Listing(_, _)
Listing(order, names) ==
    IF order = << >> THEN << >>
    ELSE (IF Head(order) \in names THEN <<Head(order)>> ELSE << >>)
         \o Listing(Tail(order), names)

\* the end of the class loop body: the summary is compiled and counted
Compiled(item, listing, run, done, summary) ==
    [store |-> [run.store EXCEPT ![item] = summary.dir,
                                 ![Duplicates] = done.quarantine],
     raised |-> FALSE,
     processed |-> run.processed + done.processed,
     compiled |-> Put(run.compiled, item,
                      [summary_file |-> summary.summary_file,
                       entries |-> summary.entries,
                       test_entries |-> summary.test_entries,
                       listing |-> listing])]

\* the class loop body after the file loop; compile_class_summary lists the
\* directory in the scan order order, restricted to the names it holds now
CompileClass(item, order, today, run, done) ==
    IF done.raised
    THEN [run EXCEPT !.store = [run.store EXCEPT ![item] = done.dir,
                                                 ![Duplicates] = done.quarantine],
                     !.raised = TRUE,
                     !.processed = @ + done.processed]
    ELSE Compiled(item, Listing(order, DOMAIN done.dir), run, done,
                  compile_class_summary(done.dir, item,
                                        Listing(order, DOMAIN done.dir), today))

\* the class loop body for the class folder item, listed in the order order
ProcessClass(item, order, posix, today, run) ==
    CompileClass(item, order, today, run,
        CompleteFiles(Sorted(DOMAIN run.store[item]),
            get_point_scale_from_directory(run.store[item], order, << >>), posix,
            [dir |-> run.store[item], quarantine |-> run.store[Duplicates],
             raised |-> FALSE, processed |-> 0]))

\* the loop over sorted(os.listdir(records_dir)).
\* run = [store, raised, processed, compiled]
RECURSIVE ProcessClasses(_, _, _, _, _)
ProcessClasses(classes, scan, posix, today, run) ==
    IF classes = << >> \/ run.raised THEN run
    ELSE ProcessClasses(Tail(classes), scan, posix, today,
             ProcessClass(Head(classes), scan[Head(classes)], posix, today, run))

process_and_compile_main(store, scan, posix, today) ==
    ProcessClasses(Sorted(ClassDirs(store)), scan, posix, today,
        [store |-> store, raised |-> FALSE, processed |-> 0,
         compiled |-> [c \in {} |-> 0]])

-----------------------------------------------------------------------------
(* find_duplicates.py : main, and the application's start-up Resolver      *)

\* a variant of the start of main without the existence test: mkdir with
\* parents=True makes Records and Duplicates
OpenRecordsAlways(exists, store) ==
    [found |-> TRUE, exists |-> TRUE,
     store |-> IF Duplicates \in DOMAIN store THEN store
               ELSE store @@ (Duplicates :> EmptyDir)]

\* the start of both mains: os.path.exists(records_dir), else the error is
\* printed and main returns; then Path(duplicates_folder).mkdir(exist_ok).
\* [found, exists, store] : the test's outcome, Records exists afterwards,
\* the store afterwards
OpenRecords(exists, store) ==
    IF ~exists THEN [found |-> FALSE, exists |-> FALSE, store |-> store]
    ELSE [found |-> TRUE, exists |-> TRUE,
          store |-> IF Duplicates \in DOMAIN store THEN store
                    ELSE store @@ (Duplicates :> EmptyDir)]

\* the exit status of either script: main returns, after the missing-root
\* message as after the final tally, or the __main__ handler catches the
\* exception and prints it; neither file calls sys.exit, so the interpreter
\* ends with status 0 (a terminal is attached and Enter is pressed)
ExitStatus(found, raised) == 0

NoMoves(store) == [store |-> store, moved |-> 0, log |-> << >>, failed |-> {}]

find_duplicates_main(store, scan, locked) ==
    ResolveClasses("script", Sorted(ClassDirs(store)), scan, locked, NoMoves(store))

\* classes: os.listdir(records_folder) without "Duplicates", in scan order
find_and_move_duplicates(store, classes, scan, locked) ==
    ResolveClasses("app", classes, scan, locked, NoMoves(store))

-----------------------------------------------------------------------------
(* speaking_test.py : the interactive session                              *)

\* the wall clock, one entry per minute the model visits
Clock == << <<2024, 1, 5, 9, 30>>, <<2024, 1, 5, 9, 31>> >>

\* now.strftime("%Y.%m.%d.%H%M")
StampLong(t) ==
    ZFill(StrOf(t[1]), 4) \o <<".">> \o ZFill(StrOf(t[2]), 2) \o <<".">>
        \o ZFill(StrOf(t[3]), 2) \o <<".">> \o ZFill(StrOf(t[4]), 2)
        \o ZFill(StrOf(t[5]), 2)

\* now.strftime("%y.%m.%d")
DateShort(t) ==
    ZFill(StrOf(t[1] % 100), 2) \o <<".">> \o ZFill(StrOf(t[2]), 2) \o <<".">>
        \o ZFill(StrOf(t[3]), 2)

\* now.strftime("%y.%m.%d.%H%M")
StampShort(t) ==
    DateShort(t) \o <<".">> \o ZFill(StrOf(t[4]), 2) \o ZFill(StrOf(t[5]), 2)

\* now.strftime("%Y-%m-%d")
DateDashed(t) ==
    ZFill(StrOf(t[1]), 4) \o <<"-">> \o ZFill(StrOf(t[2]), 2) \o <<"-">>
        \o ZFill(StrOf(t[3]), 2)

\* the name create_output_file gives the record
RecordName(class_number, student_id, timestamp) ==
    SpeakingTest_ \o class_number \o <<"_">> \o student_id \o <<"_">>
        \o timestamp \o DotTxt

\* check_existing_student_file over the names of the class folder
check_existing_student_file(names, student_id) ==
    LET pattern_ids ==
            {student_id}
            \cup (IF IsDigit(student_id)
                  THEN {ZFill(student_id, 2), StrOf(IntOf(student_id))} ELSE {})
    IN  \E filename \in names :
            /\ StartsWith(filename, SpeakingTest_)
            /\ EndsWith(filename, DotTxt)
            /\ LET parts == Split(Remove(filename, DotTxt), "_")
               IN  Len(parts) >= 3 /\ parts[3] \in pattern_ids

\* delete_last_line on the content of the output file
delete_last_line(content) ==
    IF content # << >> THEN SubSeq(content, 1, Len(content) - 1) ELSE content

\* the line add_to_class_summary appends
ClassSummaryLine(t, student_id, student_name, total_score, max_score, percentage) ==
    LET student_display == IF IsDigit(student_id) THEN ZFill(student_id, 2)
                           ELSE LJust(student_id, 2)
        name_display == Slice(LJust(student_name, 20), 0, 20)
        score_display == RJust(StrOf(total_score) \o <<"/">> \o StrOf(max_score), 10)
        percent_display == RJust(StrOf(percentage) \o <<"%">>, 5)
    IN  StampShort(t) \o <<":", " ", " ", " ", "Student", " ">> \o student_display
        \o <<" ">> \o name_display \o <<":", " ", " ">> \o score_display
        \o <<" ", "=", " ">> \o percent_display

\* the header submit_class writes into a new class summary file
ClassSummaryHead(class_number, t) ==
    << <<"Class", " ">> \o class_number \o <<" ", "-", " ", "Speaking Test Summary">>,
       <<"Date:", " ">> \o DateDashed(t),
       Rep("=", 80),
       << >> >>

\* re.sub(r'[^\w\s-]', '', name) over the alphabet of the model
RECURSIVE KeepWordChars(_)
KeepWordChars(name) ==
    IF name = << >> THEN << >>
    ELSE (IF Head(name) \in {"%", ".", "/", ":", "="} THEN << >> ELSE <<Head(name)>>)
         \o KeepWordChars(Tail(name))

\* re.sub(r'\s+', ' ', name)
RECURSIVE SqueezeSpaces(_)
SqueezeSpaces(name) ==
    IF Len(name) < 2 THEN name
    ELSE IF name[1] = " " /\ name[2] = " " THEN SqueezeSpaces(Tail(name))
    ELSE <<Head(name)>> \o SqueezeSpaces(Tail(name))

sanitize_folder_name(name) ==
    Replace(Strip(SqueezeSpaces(KeepWordChars(name))), <<" ">>, <<"_">>)

\* os.path.exists(dir/name)
Exists(store, dir, name) == dir \in DOMAIN store /\ name \in DOMAIN store[dir]

\* the content open(dir/name, 'a') appends to: a missing file is created
Content(store, dir, name) ==
    IF Exists(store, dir, name) THEN store[dir][name] ELSE << >>

\* open(dir/name, 'w') and write
WriteFile(store, dir, name, body) == [store EXCEPT ![dir] = Put(@, name, body)]

\* submit_class on the store: the class folder and today's class summary
submit_class(store, class_folder, class_number, t) ==
    LET summary == class_number \o <<"_">> \o SpeakingTest \o <<".">>
                   \o DateShort(t) \o DotTxt
        made == IF class_folder \in DOMAIN store THEN store
                ELSE Put(store, class_folder, EmptyDir)
    IN  IF summary \in DOMAIN made[class_folder] THEN made
        ELSE WriteFile(made, class_folder, summary, ClassSummaryHead(class_number, t))

\* create_output_file : open(self.output_file, 'w'), f.write("")
create_output_file(store, class_folder, filename) ==
    WriteFile(store, class_folder, filename, << >>)

\* add_to_class_summary : open(self.class_summary_file, 'a')
add_to_class_summary(store, a, t, score) ==
    WriteFile(store, a.class_folder, a.class_summary_file,
        Append(Content(store, a.class_folder, a.class_summary_file),
               ClassSummaryLine(t, a.student_id, a.student_name,
                                score[1], score[2], score[3])))

\* show_score_summary once calculate_score has returned score
ScoreSummary(store, a, t, score) ==
    add_to_class_summary(
        WriteFile(store, a.class_folder, a.output_file,
            Completed(a.output_file, a.student_id, a.student_name,
                      store[a.class_folder][a.output_file], score)),
        a, t, score)

\* show_score_summary on the store; the output file exists, save_record
\* has just appended to it
show_score_summary(store, a, t) ==
    ScoreSummary(store, a, t,
                 app_calculate_score(store[a.class_folder][a.output_file]))

-----------------------------------------------------------------------------
(* Bounds and inputs                                                       *)

MaxFiles == 3          \* files placed in the class directory "5" at the start
MaxQuarantined == 1    \* files placed in the quarantine directory at the start
MaxLocked == 1         \* files whose move fails during one Resolver run
MaxStarts == 2         \* tests started in one behaviour
NumImages == 2         \* slides of a test: images 0 .. NumImages - 1
NumButtons == 1        \* positions 1 .. NumButtons are clicked
MaxRuns == 1           \* runs of the batch scripts in one behaviour
MaxLines == 2          \* answer lines recorded in one test
MaxAnswers == 3        \* answer lines handed to a function applied on its own
MaxKeyLen == 3         \* characters of a student key handed to normalize_student_id

Class5 == <<"5">>

\* what is typed on the class and on the student entry screens
Classes == {Class5}

Students == {<<"3">>, <<"0", "3">>}

Class6 == <<"6">>

TsA == <<"2", "0", "2", "4", ".", "0", "1", ".", "0", "5", ".", "0", "9", "3", "0">>

TsB == <<"2", "4", ".", "0", "1", ".", "0", "5", ".", "0", "9", "3", "1">>

TsOld == <<"1", "8", "9", "9", ".", "1", "2", ".", "3", "1", ".", "2", "3", "5", "9">>

TsBad == <<"2", "0", "2", "4", ".", "0", "2", ".", "3", "0", ".", "1", "2", "0", "0">>

R1 == RecordName(Class5, <<"3">>, TsA)

R2 == RecordName(Class5, <<"0", "3">>, TsB)

R3 == RecordName(Class5, <<"3">>, TsOld)

R4 == RecordName(Class5, <<"3">>, TsBad)

R5 == RecordName(Class5, <<"4">>, TsA)

\* student key "3_" : the fourth segment of the name is empty
R6 == RecordName(Class5, <<"3", "_">>, TsA)

\* the intermediate name an interrupted completion of R1 leaves behind
R7 == Replace(R1, DotTxt, UnprocessedMark)

R1dup1 == SplitExt(R1)[1] \o DupMark \o <<"1">> \o DotTxt

\* the body of an interrupted test: question 0 answered twice, then question 1
RawBody == <<AnswerLine(0, 1), AnswerLine(0, 2), AnswerLine(1, 1)>>

\* '_'.join(parts)
RECURSIVE Join(_)
Join(parts) ==
    IF Len(parts) <= 1 THEN (IF parts = << >> THEN << >> ELSE parts[1])
    ELSE parts[1] \o <<"_">> \o Join(Tail(parts))

\* the student ID typed for the record create_output_file called filename:
\* what stands between the class number and the timestamp
TypedKey(filename) ==
    Join(SubSeq(Split(Remove(filename, DotTxt), "_"), 3,
                Len(Split(Remove(filename, DotTxt), "_")) - 1))

\* a body the application completed for the record called filename
HeadedBody(filename) ==
    Completed(filename, TypedKey(filename), << >>, RawBody,
              app_calculate_score(RawBody))

\* what was in the quarantine directory before: one answer line
OldBody == <<AnswerLine(0, 2)>>

\* the names of the Resolver runs: one student at four instants, another one
Names5 == {R1, R2, R3, R4, R5}

Names6 == {R1, R2}

NamesQ == {R1, R1dup1}

\* the names of the pipeline runs, and what their quarantine may hold
NamesP == {R1, R5, R6, R7}

\* a body with a byte that cannot be decoded in its last line
Corrupt(body) == [i \in 1..Len(body) |-> IF i = Len(body) THEN Append(body[i], BadByte) ELSE body[i]]

\* an interrupted, a completed or an empty record, or one of the first two
\* with an undecodable byte; an intermediate is raw
BodiesOf(filename) ==
    IF filename = R7 THEN {RawBody}
    ELSE IF filename = R1
    THEN {RawBody, HeadedBody(filename), << >>, Corrupt(RawBody), Corrupt(HeadedBody(filename))}
    ELSE {RawBody, HeadedBody(filename), << >>}

\* the directories over the names of S, each file raw or headed
DirsOver(S) ==
    {d \in [S -> UNION {BodiesOf(n) : n \in S}] : \A n \in S : d[n] \in BodiesOf(n)}

SubsetsUpTo(S, k) == {T \in SUBSET S : Cardinality(T) <= k}

-----------------------------------------------------------------------------
(* State                                                                   *)

\* nothing has run yet
Idle ==
    [op |-> "none", moved |-> 0, log |-> << >>, failed |-> {}, raised |-> FALSE,
     processed |-> 0, compiled |-> [c \in {} |-> 0], file |-> << >>,
     not_found |-> FALSE, status |-> 0]

\* no function is applied on its own
NoCall == [fn |-> "none", arg |-> << >>, out |-> << >>, done |-> FALSE]

\* SpeakingTestApp.__init__ : the session fields; "off" = not running
AppOff ==
    [screen |-> "off", class_number |-> << >>, class_folder |-> << >>,
     student_id |-> << >>, student_name |-> << >>, output_file |-> << >>,
     class_summary_file |-> << >>, current_image_index |-> 0]

\* the orders in which os.listdir may list each class directory
Scans(store) ==
    {scan \in [ClassDirs(store) -> UNION {Orders(DOMAIN store[c]) : c \in ClassDirs(store)}] :
        \A c \in ClassDirs(store) : scan[c] \in Orders(DOMAIN store[c])}

Reverse(s) == [i \in 1..Len(s) |-> s[Len(s) + 1 - i]]

\* the scans that list every class directory by name, ascending or descending
SortedScans(store) ==
    {scan \in Scans(store) :
        \A c \in ClassDirs(store) :
            scan[c] \in {Sorted(DOMAIN store[c]), Reverse(Sorted(DOMAIN store[c]))}}

Paths(store) == {<<c, n>> : c \in ClassDirs(store), n \in UNION {DOMAIN store[d] : d \in ClassDirs(store)}}

\* the sets of files that cannot be moved (locked, no permission): files
\* of class "5" called R1 or R3
LockChoices(store) ==
    SubsetsUpTo({p \in Paths(store) : p[1] = Class5 /\ p[2] \in {R1, R3}
                                      /\ p[2] \in DOMAIN store[p[1]]}, MaxLocked)

\* a records root an operator filled: class directories "5" and "6" with
\* completed records, and the quarantine directory
InitResolver ==
    /\ \E S5 \in SubsetsUpTo(Names5, MaxFiles), S6 \in {{}, Names6},
          SQ \in SubsetsUpTo(NamesQ, MaxQuarantined) :
         fs = (Class5 :> [n \in S5 |-> HeadedBody(n)])
              @@ (Class6 :> [n \in S6 |-> RawBody])
              @@ (Duplicates :> [n \in SQ |-> OldBody])
    /\ pre = fs
    /\ last = Idle
    /\ app = AppOff
    /\ now = 1
    /\ starts = 0
    /\ runs = 0
    /\ call = NoCall
    /\ root = TRUE

\* f"{self.class_number}_Roster.txt"
RosterName(class_number) ==
    class_number \o <<"_", "R", "o", "s", "t", "e", "r">> \o DotTxt

\* a roster of two students, a line "<id> <name>" each
RosterBody == << <<"3", " ", "Ann">>, <<"4", " ", "Ben">> >>

\* the files of class "5" that are no records: the summary of 5.1.2024 with
\* the line of student 4, and the roster
OtherFiles ==
    (SummaryName(Class5, <<"2", "4", ".", "0", "1", ".", "0", "5">>) :>
        WriteSummary(EmptyDir, Class5,
            <<[student_id |-> <<"4">>, student_name |-> << >>, timestamp |-> TsA, total_score |-> 5,
               max_score |-> 10, percentage |-> 50]>>,
            <<"2", "4", ".", "0", "1", ".", "0", "5">>).dir[
                SummaryName(Class5, <<"2", "4", ".", "0", "1", ".", "0", "5">>)])
    @@ (RosterName(Class5) :> RosterBody)

\* the records of class "5" next to them: student 3/03 twice, student 4 once
NamesFrame == {R1, R2, R5}

\* a records root with completed records, a summary and a roster in class
\* "5", records in class "6", and the quarantine directory
InitFrame ==
    /\ \E S5 \in SubsetsUpTo(NamesFrame, MaxFiles), S6 \in {{}, Names6},
          SQ \in SubsetsUpTo(NamesQ, MaxQuarantined),
          O5 \in SUBSET DOMAIN OtherFiles :
         fs = (Class5 :> [n \in S5 \cup O5 |->
                            IF n \in O5 THEN OtherFiles[n] ELSE HeadedBody(n)])
              @@ (Class6 :> [n \in S6 |-> RawBody])
              @@ (Duplicates :> [n \in SQ |-> OldBody])
    /\ pre = fs
    /\ last = Idle
    /\ app = AppOff
    /\ now = 1
    /\ starts = 0
    /\ runs = 0
    /\ call = NoCall
    /\ root = TRUE

\* a records root before a pipeline run: class "5" holds interrupted (raw),
\* completed (headed) and empty records, class "6" at most one completed one
InitPipeline ==
    /\ \E S5 \in SubsetsUpTo(NamesP, MaxFiles), S6 \in {{}, {R2}} :
         \E d5 \in DirsOver(S5) :
            fs = (Class5 :> d5) @@ (Class6 :> [n \in S6 |-> HeadedBody(n)])
                 @@ (Duplicates :> (R7 :> OldBody))
    /\ pre = fs
    /\ last = Idle
    /\ app = AppOff
    /\ now = 1
    /\ starts = 0
    /\ runs = 0
    /\ call = NoCall
    /\ root = TRUE

\* the folder of the scripts before a batch command: no Records directory,
\* or one with class directories "5" and "6" and with or without the
\* quarantine directory
InitBatch ==
    /\ \/ root = FALSE /\ fs = EmptyDir
       \/ /\ root = TRUE
          /\ \E S5 \in SubsetsUpTo(Names5, MaxFiles), S6 \in {{}, Names6}, SQ \in {{}, {R1}} :
               \E classes \in {(Class5 :> [n \in S5 |-> HeadedBody(n)])
                                @@ (Class6 :> [n \in S6 |-> RawBody])} :
                   \/ fs = classes
                   \/ fs = classes @@ (Duplicates :> [n \in SQ |-> OldBody])
    /\ pre = fs
    /\ last = Idle
    /\ app = AppOff
    /\ now = 1
    /\ starts = 0
    /\ runs = 0
    /\ call = NoCall

\* a records root after a session: class "5" holds completed, interrupted
\* and abandoned (empty) records of the students "3" (also typed "03") and
\* "4", class "6" at most one completed record
InitSequence ==
    /\ \E S5 \in SUBSET {R1, R2, R5}, S6 \in {{}, {R2}} :
         \E d5 \in [S5 -> {RawBody, << >>} \cup {HeadedBody(n) : n \in S5}] :
            /\ \A n \in S5 : d5[n] \in {RawBody, << >>, HeadedBody(n)}
            /\ fs = (Class5 :> d5) @@ (Class6 :> [n \in S6 |-> HeadedBody(n)])
                    @@ (Duplicates :> EmptyDir)
    /\ pre = fs
    /\ last = Idle
    /\ app = AppOff
    /\ now = 1
    /\ starts = 0
    /\ runs = 0
    /\ call = NoCall
    /\ root = TRUE

\* a fresh installation: the records root holds only the quarantine directory
Init ==
    /\ fs = (Duplicates :> EmptyDir)
    /\ pre = fs
    /\ last = Idle
    /\ app = AppOff
    /\ now = 1
    /\ starts = 0
    /\ runs = 0
    /\ call = NoCall
    /\ root = TRUE

-----------------------------------------------------------------------------
(* Batch commands                                                          *)

\* python find_duplicates.py
FindDuplicates ==
    /\ runs < MaxRuns
    /\ runs' = runs + 1
    /\ \E o \in {OpenRecords(root, fs)} :
         /\ root' = o.exists
         /\ IF ~o.found
            THEN /\ fs' = o.store
                 /\ last' = [Idle EXCEPT !.op = "find_duplicates", !.not_found = TRUE,
                                         !.status = ExitStatus(FALSE, FALSE)]
            ELSE \E scan \in Scans(o.store), locked \in LockChoices(o.store) :
                   \E r \in {find_duplicates_main(o.store, scan, locked)} :
                     /\ fs' = r.store
                     /\ last' = [Idle EXCEPT !.op = "find_duplicates",
                                             !.moved = r.moved, !.log = r.log,
                                             !.failed = r.failed,
                                             !.status = ExitStatus(TRUE, FALSE)]
    /\ pre' = fs
    /\ UNCHANGED <<app, now, starts, call>>

\* python process_and_compile.py
ProcessAndCompile ==
    /\ runs < MaxRuns
    /\ runs' = runs + 1
    /\ \E o \in {OpenRecords(root, fs)} :
         /\ root' = o.exists
         /\ IF ~o.found
            THEN /\ fs' = o.store
                 /\ last' = [Idle EXCEPT !.op = "process_and_compile", !.not_found = TRUE,
                                         !.status = ExitStatus(FALSE, FALSE)]
            ELSE \E scan \in SortedScans(o.store), posix \in BOOLEAN :
                   \E r \in {process_and_compile_main(o.store, scan, posix,
                                                       DateShort(Clock[now]))} :
                     /\ fs' = r.store
                     /\ last' = [Idle EXCEPT !.op = "process_and_compile",
                                             !.raised = r.raised,
                                             !.processed = r.processed,
                                             !.compiled = r.compiled,
                                             !.status = ExitStatus(TRUE, r.raised)]
    /\ pre' = fs
    /\ UNCHANGED <<app, now, starts, call>>

\* python process_and_compile.py, python find_duplicates.py and python
\* process_and_compile.py again, one after the other: completion, Resolver,
\* Compiler; no file is locked
CompleteResolveCompile ==
    /\ runs < MaxRuns
    /\ runs' = runs + 1
    /\ root
    /\ Duplicates \in DOMAIN fs
    /\ \E scan1 \in SortedScans(fs), posix \in BOOLEAN :
         \E r1 \in {process_and_compile_main(fs, scan1, posix, DateShort(Clock[now]))} :
           \E scan2 \in Scans(r1.store) :
             \E r2 \in {find_duplicates_main(r1.store, scan2, {})} :
               \E scan3 \in SortedScans(r2.store) :
                 \E r3 \in {process_and_compile_main(r2.store, scan3, posix,
                                                     DateShort(Clock[now]))} :
                     /\ fs' = r3.store
                     /\ last' = [Idle EXCEPT !.op = "complete_resolve_compile",
                                             !.raised = r1.raised \/ r3.raised,
                                             !.processed = r1.processed + r3.processed,
                                             !.moved = r2.moved, !.log = r2.log,
                                             !.compiled = r3.compiled]
    /\ pre' = fs
    /\ UNCHANGED <<app, now, starts, call, root>>

\* SpeakingTestApp.__init__ : check_and_handle_duplicates, then class entry
AppStart ==
    /\ app.screen = "off"
    /\ \E classes \in Orders(ClassDirs(fs)), scan \in Scans(fs),
          locked \in LockChoices(fs) :
         \E r \in {find_and_move_duplicates(fs, classes, scan, locked)} :
             /\ fs' = r.store
             /\ last' = [Idle EXCEPT !.op = "app_start", !.moved = r.moved,
                                     !.log = r.log, !.failed = r.failed]
    /\ pre' = fs
    /\ app' = [AppOff EXCEPT !.screen = "class"]
    /\ UNCHANGED <<now, starts, runs, call, root>>

\* on_closing, confirmed
AppClose ==
    /\ app.screen # "off"
    /\ app' = AppOff
    /\ pre' = fs
    /\ last' = Idle
    /\ UNCHANGED <<fs, now, starts, runs, call, root>>

-----------------------------------------------------------------------------
(* The interactive session                                                 *)

\* submit_class : the typed class number is accepted, an existing folder is
\* used; then the student entry screen (no slide subfolders)
SubmitClass ==
    /\ app.screen = "class"
    /\ \E raw \in Classes :
         /\ sanitize_folder_name(raw) # << >>
         /\ fs' = submit_class(fs, sanitize_folder_name(raw), raw, Clock[now])
         /\ app' = [app EXCEPT
                !.screen = "student",
                !.class_number = raw,
                !.class_folder = sanitize_folder_name(raw),
                !.class_summary_file = raw \o <<"_">> \o SpeakingTest \o <<".">>
                                       \o DateShort(Clock[now]) \o DotTxt]
    /\ pre' = fs'
    /\ last' = Idle
    /\ UNCHANGED <<now, starts, runs, call, root>>

\* submit_student without a roster, then start_test: the warning about an
\* existing file is answered with yes; no Start image
SubmitStudent ==
    /\ app.screen = "student"
    /\ starts < MaxStarts
    /\ \E id \in Students :
         \E filename \in {RecordName(app.class_number, id, StampLong(Clock[now]))} :
             /\ fs' = create_output_file(fs, app.class_folder, filename)
             /\ app' = [app EXCEPT !.screen = "image", !.student_id = id,
                                   !.student_name = << >>,
                                   !.output_file = filename,
                                   !.current_image_index = 0]
    /\ pre' = fs'
    /\ last' = Idle
    /\ starts' = starts + 1
    /\ UNCHANGED <<now, runs, call, root>>

\* handle_click(button) on the image screen: save_record, then the next
\* image, or show_score_summary after the last one (no PreScore image)
HandleClick ==
    /\ app.screen = "image"
    /\ Len(Content(fs, app.class_folder, app.output_file)) < MaxLines
    /\ \E button \in 1..NumButtons :
         \E saved \in {WriteFile(fs, app.class_folder, app.output_file,
                          save_record(Content(fs, app.class_folder, app.output_file),
                                      app.current_image_index, button))} :
             IF app.current_image_index = NumImages - 1
             THEN /\ fs' = show_score_summary(saved, app, Clock[now])
                  /\ app' = [app EXCEPT !.screen = "score_summary"]
             ELSE /\ fs' = saved
                  /\ app' = [app EXCEPT !.current_image_index = @ + 1]
    /\ pre' = fs'
    /\ last' = Idle
    /\ UNCHANGED <<now, starts, runs, call, root>>

\* handle_backspace : delete_last_line, then go_previous; a missing output
\* file makes delete_last_line do nothing
HandleBackspace ==
    /\ app.screen = "image"
    /\ app.current_image_index > 0
    /\ fs' = IF Exists(fs, app.class_folder, app.output_file)
             THEN WriteFile(fs, app.class_folder, app.output_file,
                      delete_last_line(fs[app.class_folder][app.output_file]))
             ELSE fs
    /\ app' = [app EXCEPT !.current_image_index = @ - 1]
    /\ pre' = fs'
    /\ last' = Idle
    /\ UNCHANGED <<now, starts, runs, call, root>>

\* go_previous : Up arrow, scroll up
GoPrevious ==
    /\ app.screen = "image"
    /\ app.current_image_index > 0
    /\ app' = [app EXCEPT !.current_image_index = @ - 1]
    /\ pre' = fs
    /\ last' = Idle
    /\ UNCHANGED <<fs, now, starts, runs, call, root>>

\* go_next : Down arrow, scroll down
GoNext ==
    /\ app.screen = "image"
    /\ app.current_image_index < NumImages - 1
    /\ app' = [app EXCEPT !.current_image_index = @ + 1]
    /\ pre' = fs
    /\ last' = Idle
    /\ UNCHANGED <<fs, now, starts, runs, call, root>>

\* Tab on the image screen: show_student_entry, the test is left unfinished
LeaveTest ==
    /\ app.screen = "image"
    /\ app' = [app EXCEPT !.screen = "student"]
    /\ pre' = fs
    /\ last' = Idle
    /\ UNCHANGED <<fs, now, starts, runs, call, root>>

\* continue_after_score : back to the student entry (no PostScore image)
ContinueAfterScore ==
    /\ app.screen = "score_summary"
    /\ app' = [app EXCEPT !.screen = "student"]
    /\ pre' = fs
    /\ last' = Idle
    /\ UNCHANGED <<fs, now, starts, runs, call, root>>

\* a minute passes on the wall clock
Tick ==
    /\ now < Len(Clock)
    /\ now' = now + 1
    /\ pre' = fs
    /\ last' = Idle
    /\ UNCHANGED <<fs, app, starts, runs, call, root>>

-----------------------------------------------------------------------------
(* The batch commands one file operation at a time                         *)

\* what an intermediate left in the class directory holds: the answer an
\* earlier attempt of that name had received when its completion stopped
StaleBody == <<AnswerLine(1, 2)>>

\* a records root between two batch commands: class "5" holds interrupted,
\* completed and empty records and may hold the intermediate of R1, the
\* quarantine directory may hold a file called like R1 or like R7
InitSteps ==
    /\ \E S5 \in SubsetsUpTo({R1, R2, R5, R7}, MaxFiles), S6 \in {{}, {R2}},
          SQ \in SubsetsUpTo({R1, R7}, MaxQuarantined) :
         \E d5 \in [S5 -> {RawBody, << >>, StaleBody} \cup {HeadedBody(n) : n \in S5}] :
            /\ \A n \in S5 : d5[n] \in IF n = R7 THEN {StaleBody}
                                       ELSE {RawBody, << >>, HeadedBody(n)}
            /\ fs = (Class5 :> d5) @@ (Class6 :> [n \in S6 |-> HeadedBody(n)])
                    @@ (Duplicates :> [n \in SQ |-> OldBody])
    /\ pre = fs
    /\ last = Idle
    /\ app = AppOff
    /\ now = 1
    /\ starts = 0
    /\ runs = 0
    /\ call = NoCall
    /\ root = TRUE

\* the files find_duplicates_in_folder marks in the class folders, in the
\* order move_duplicates takes them: <<class, filename>>
RECURSIVE MarkedOf(_, _)
MarkedOf(c, duplicates) ==
    IF duplicates = << >> THEN << >>
    ELSE (IF Head(duplicates).is_duplicate
          THEN << <<c, Head(duplicates).filename>> >> ELSE << >>)
         \o MarkedOf(c, Tail(duplicates))

RECURSIVE ResolverWork(_, _)
ResolverWork(classes, scan) ==
    IF classes = << >> THEN << >>
    ELSE MarkedOf(Head(classes), find_duplicates_in_folder("script", scan[Head(classes)]))
         \o ResolverWork(Tail(classes), scan)

\* the file loop of one class folder followed by its summary:
\* <<class, filename>>, then <<class, << >>>> for compile_class_summary
PipelineWorkOf(c, listing) ==
    [i \in 1..(Len(listing) + 1) |->
        IF i <= Len(listing) THEN <<c, listing[i]>> ELSE <<c, << >>>>]

RECURSIVE PipelineWork(_, _)
PipelineWork(classes, store) ==
    IF classes = << >> THEN << >>
    ELSE PipelineWorkOf(Head(classes), Sorted(DOMAIN store[Head(classes)]))
         \o PipelineWork(Tail(classes), store)

\* find_duplicates.py is started: the class folders are scanned
StartResolver ==
    /\ call.fn = "none"
    /\ runs < MaxRuns
    /\ runs' = runs + 1
    /\ \E scan \in Scans(fs) :
         call' = [NoCall EXCEPT !.fn = "find_duplicates",
                                !.arg = ResolverWork(Sorted(ClassDirs(fs)), scan)]
    /\ pre' = fs
    /\ last' = [Idle EXCEPT !.op = "find_duplicates"]
    /\ UNCHANGED <<fs, app, now, starts, root>>

\* one pass of the loop of move_duplicates: shutil.move, or its exception
\* is caught and the loop goes on
MoveStep ==
    /\ call.fn = "find_duplicates"
    /\ call.arg # << >>
    /\ \E moves \in BOOLEAN, d \in {Head(call.arg)} :
         /\ fs' = IF moves
                  THEN MoveFile(fs, d[1], d[2], DestName(DOMAIN fs[Duplicates], d[2]))
                  ELSE fs
         /\ last' = [last EXCEPT !.moved = IF moves THEN @ + 1 ELSE @,
                                 !.file = d[2]]
    /\ call' = [call EXCEPT !.arg = Tail(@)]
    /\ UNCHANGED <<pre, app, now, starts, runs, root>>

\* process_and_compile.py is started: the class folders are listed
StartPipeline ==
    /\ call.fn = "none"
    /\ runs < MaxRuns
    /\ runs' = runs + 1
    /\ call' = [NoCall EXCEPT !.fn = "process_and_compile",
                              !.arg = PipelineWork(Sorted(ClassDirs(fs)), fs)]
    /\ pre' = fs
    /\ last' = [Idle EXCEPT !.op = "process_and_compile"]
    /\ UNCHANGED <<fs, app, now, starts, root>>

\* the tests of the file loop for the name filename of the class folder dir:
\* the record is interrupted and its name splits
ToComplete(dir, filename) ==
    /\ StartsWith(filename, SpeakingTest_)
    /\ EndsWith(filename, DotTxt)
    /\ ~Contains(filename, UnprocessedMark)
    /\ ~Contains(filename, ProcessedMark)
    /\ filename \in DOMAIN dir
    /\ ~parse_incomplete_test(dir[filename]).has_header
    /\ parse_incomplete_test(dir[filename]).questions # << >>
    /\ extract_info_from_filename(filename)[1] # << >>
    /\ extract_info_from_filename(filename)[2] # << >>

\* one pass of the file loop up to os.rename(filepath, unprocessed_path):
\* the name is skipped, or the record is renamed, or os.rename raises
\* because the target exists (Windows) and the run ends
RenameStep ==
    /\ call.fn = "process_and_compile"
    /\ call.out = << >>
    /\ call.arg # << >>
    /\ Head(call.arg)[2] # << >>
    /\ \E posix \in BOOLEAN, d \in {Head(call.arg)} :
         \E unprocessed_name \in {Replace(d[2], DotTxt, UnprocessedMark)} :
           IF ~ToComplete(fs[d[1]], d[2])
           THEN /\ call' = [call EXCEPT !.arg = Tail(@)]
                /\ UNCHANGED <<fs, last>>
           ELSE IF unprocessed_name \in DOMAIN fs[d[1]] /\ ~posix
           THEN /\ call' = NoCall
                /\ last' = [last EXCEPT !.raised = TRUE, !.file = d[2]]
                /\ UNCHANGED fs
           ELSE /\ fs' = [fs EXCEPT ![d[1]] = Rename(fs[d[1]], d[2], unprocessed_name)]
                /\ call' = [call EXCEPT !.out = unprocessed_name]
                /\ last' = [last EXCEPT !.file = d[2]]
    /\ UNCHANGED <<pre, app, now, starts, runs, root>>

\* the rest of the pass: generate_complete_report reads and writes the
\* record's path, then the intermediate is moved to the quarantine
\* directory; an exception ends the run
ReportStep ==
    /\ call.fn = "process_and_compile"
    /\ call.out # << >>
    /\ \E d \in {Head(call.arg)} :
         \E score \in {calculate_score(parse_incomplete_test(fs[d[1]][call.out]).questions)} :
           \E r \in {MoveUnprocessed(call.out,
                         generate_complete_report(fs[d[1]], d[2],
                             extract_info_from_filename(d[2])[2],
                             score[1], score[2], score[3], score[4],
                             get_point_scale_from_directory(pre[d[1]],
                                 Sorted(DOMAIN pre[d[1]]), << >>)),
                         [dir |-> fs[d[1]], quarantine |-> fs[Duplicates],
                          raised |-> FALSE, processed |-> 0])} :
             IF r.raised
             THEN /\ call' = NoCall
                  /\ last' = [last EXCEPT !.raised = TRUE]
                  /\ UNCHANGED fs
             ELSE /\ fs' = [fs EXCEPT ![d[1]] = r.dir, ![Duplicates] = r.quarantine]
                  /\ call' = [call EXCEPT !.arg = Tail(@), !.out = << >>]
                  /\ last' = [last EXCEPT !.processed = @ + 1]
    /\ UNCHANGED <<pre, app, now, starts, runs, root>>

\* the end of the class loop body: compile_class_summary writes the summary
CompileStep ==
    /\ call.fn = "process_and_compile"
    /\ call.out = << >>
    /\ call.arg # << >>
    /\ Head(call.arg)[2] = << >>
    /\ \E c \in {Head(call.arg)[1]} :
         \E summary \in {compile_class_summary(fs[c], c, Sorted(DOMAIN fs[c]),
                                               DateShort(Clock[now]))} :
           /\ fs' = [fs EXCEPT ![c] = summary.dir]
           /\ last' = [last EXCEPT !.compiled =
                           Put(@, c, [summary_file |-> summary.summary_file,
                                      entries |-> summary.entries,
                                      test_entries |-> summary.test_entries,
                                      listing |-> Sorted(DOMAIN fs[c])])]
    /\ call' = [call EXCEPT !.arg = Tail(@)]
    /\ UNCHANGED <<pre, app, now, starts, runs, root>>

\* the command ends: its loops are done, or the process is stopped where
\* it is
EndRun ==
    /\ call.fn \in {"find_duplicates", "process_and_compile"}
    /\ call' = NoCall
    /\ UNCHANGED <<fs, pre, last, app, now, starts, runs, root>>

NextSteps ==
    \/ StartResolver
    \/ MoveStep
    \/ StartPipeline
    \/ RenameStep
    \/ ReportStep
    \/ CompileStep
    \/ EndRun

SpecSteps == InitSteps /\ [][NextSteps]_vars

\* python process_and_compile.py once more, right after a run of it that
\* found the records root
ProcessAndCompileAgain ==
    /\ last.op = "process_and_compile"
    /\ ~last.not_found
    /\ runs <= MaxRuns
    /\ runs' = runs + 1
    /\ \E o \in {OpenRecords(root, fs)} :
         /\ root' = o.exists
         /\ \E scan \in SortedScans(o.store), posix \in BOOLEAN :
               \E r \in {process_and_compile_main(o.store, scan, posix,
                                                   DateShort(Clock[now]))} :
                 /\ fs' = r.store
                 /\ last' = [Idle EXCEPT !.op = "process_and_compile again",
                                         !.raised = r.raised,
                                         !.processed = r.processed,
                                         !.compiled = r.compiled,
                                         !.status = ExitStatus(TRUE, r.raised)]
    /\ pre' = fs
    /\ UNCHANGED <<app, now, starts, call>>

NextTwice == ProcessAndCompile \/ ProcessAndCompileAgain

SpecTwice == InitPipeline /\ [][NextTwice]_vars

NextBatch == FindDuplicates \/ ProcessAndCompile

SpecBatch == InitBatch /\ [][NextBatch]_vars

\* a records root in which an interrupted completion may have left an
\* intermediate file; then one batch command, or the application is started
NextLeftover == FindDuplicates \/ ProcessAndCompile \/ AppStart \/ AppClose

SpecLeftover == InitPipeline /\ [][NextLeftover]_vars

NextSequence == CompleteResolveCompile

SpecSequence == InitSequence /\ [][NextSequence]_vars

NextResolver == FindDuplicates \/ AppStart \/ AppClose

SpecResolver == InitResolver /\ [][NextResolver]_vars

\* the Resolver on class directories that hold a summary and a roster too
SpecFrame == InitFrame /\ [][NextResolver]_vars

NextPipeline == ProcessAndCompile

SpecPipeline == InitPipeline /\ [][NextPipeline]_vars

\* the application in use on a fresh installation, the scripts run at will
Next ==
    \/ AppStart
    \/ AppClose
    \/ SubmitClass
    \/ SubmitStudent
    \/ HandleClick
    \/ HandleBackspace
    \/ GoPrevious
    \/ GoNext
    \/ LeaveTest
    \/ ContinueAfterScore
    \/ Tick
    \/ FindDuplicates
    \/ ProcessAndCompile

Spec == Init /\ [][Next]_vars

\* the application in use and the Resolver script, without the pipeline
NextLive ==
    \/ AppStart
    \/ AppClose
    \/ SubmitClass
    \/ SubmitStudent
    \/ HandleClick
    \/ HandleBackspace
    \/ GoPrevious
    \/ GoNext
    \/ LeaveTest
    \/ ContinueAfterScore
    \/ Tick
    \/ FindDuplicates

SpecLive == Init /\ [][NextLive]_vars

-----------------------------------------------------------------------------
(* Functions of the code applied on their own                              *)

\* the sequences over S of length at most n
SeqsUpTo(S, n) == UNION {[1..k -> S] : k \in 0..n}

\* the state before fn is applied to arg
Applying(fn, arg) == [fn |-> fn, arg |-> arg, out |-> << >>, done |-> FALSE]

\* decoded answer lines (q_num, points): questions 0 and 1, the point values
\* of the buttons
ScoreInputs ==
    SeqsUpTo({0, 1} \X {point_values[b] : b \in 1..5}, MaxAnswers)

\* Headless bodies: answer lines of slides 0 and 1, buttons 1 and 2
HeadlessBodies ==
    SeqsUpTo({AnswerLine(i, b) : i \in 0..1, b \in 1..2}, MaxAnswers)

\* student IDs and names as typed; the batch script may be handed no ID
TypedIds == {<<"3">>, <<"A">>, << >>}

TypedNames == {<< >>, <<"A", "n", "n">>}

\* the record file the functions below work on
RecordOf(id) == RecordName(Class5, id, TsA)

\* the timestamp segment of a record name: a year, a month, a day and a time
\* of day, well-formed or not, and strings of three and of five components
Years == {<<"2", "4">>, <<"2", "0", "2", "4">>, <<"0", "2", "4">>, <<"1", "8", "9", "9">>, <<"2", "x">>}
Months == {<<"0", "1">>, <<"0", "2">>, <<"1", "3">>}
Days == {<<"0", "5">>, <<"3", "0">>}
Times == {<<"0", "9", "3", "0">>, <<"0", "9", "3">>, <<"0", "9", "3", "0", "5">>, <<"2", "4", "0", "0">>, <<"0", "9", "6", "0">>, <<"a", "b">>}
Timestamps ==
    {y \o <<".">> \o m \o <<".">> \o d \o <<".">> \o t :
        y \in Years, m \in Months, d \in Days, t \in Times}
    \cup {<<"2", "4", ".", "0", "1", ".", "0", "5">>, TsA \o <<".", "0", "0">>, << >>}

\* the student segment of two record names: ASCII and full-width digits, a
\* letter, or nothing
StudentKeys == SeqsUpTo({"0", "1", WideOne, "A"}, MaxKeyLen)

\* what is typed as class number and as student ID: digits, a letter, text
\* with an underscore
ClassKeys == {<<"5">>, <<"A">>, <<"5", "_", "A">>}

NameKeys == {<<"3">>, <<"0", "3">>, <<"4">>, <<"A">>, <<"3", "_">>, <<"3", "_", "4">>, <<"_", "3">>}

\* the seconds of the minute at which a test starts
Seconds == {0, 59}

\* record names of class "5" with equal instants in one bucket: student 3
\* at 09:30 typed "3" and "03" and with a two-digit year, two names whose
\* timestamp gives the sentinel; and a later record and another student
TiedNames ==
    {R1, RecordName(Class5, <<"0", "3">>, TsA),
     RecordName(Class5, <<"3">>, SubSeq(TsA, 3, Len(TsA))), R2, R4, R6, R5}

\* os.listdir of a class folder: the names of a set in any order
Listings == UNION {Orders(S) : S \in SubsetsUpTo(TiedNames, MaxFiles)}

\* file names of a class folder: a first segment, up to MaxSegments more
\* segments joined by '_', and an extension or none; a segment is a key, a
\* date, empty, or text that holds '.txt'
MaxSegments == 4

Segments == {<<"5">>, <<"3">>, << >>, <<"2", "4", ".", "0", "1">>, <<"a">> \o DotTxt}

FileNames ==
    {Join(<<first>> \o rest) \o ext :
        first \in {SpeakingTest, <<"T", "e", "s", "t">>},
        rest \in SeqsUpTo(Segments, MaxSegments),
        ext \in {DotTxt, <<".", "d", "o", "c">>}}

\* a point scale a teacher configured: two positions, other values and
\* labels than the default
CustomScale ==
    << [points |-> 4, name |-> <<"G", "o", "o", "d">>],
       [points |-> 1, name |-> <<"P", "o", "o", "r">>] >>

\* the record filename completed by the batch script with the legend of scale
LegendBody(filename, scale) ==
    generate_complete_report((filename :> RawBody), filename, TypedKey(filename),
                             5, 10, 50, 2, scale).dir[filename]

\* class folders of up to two records, each interrupted or Headed with the
\* legend of the default or of the custom scale: [dir, scales], scales
\* being the scales whose legend some record of dir carries
ScaleFolders ==
    {[dir |-> [n \in DOMAIN kind |->
                  IF kind[n] = << >> THEN RawBody ELSE LegendBody(n, kind[n])],
      scales |-> {kind[n] : n \in DOMAIN kind} \ {<< >>}] :
        kind \in UNION {[S -> {<< >>, DefaultScale, CustomScale}] : S \in SUBSET {R1, R5}}}

\* records of class "5" taken on three days, with four-digit and two-digit
\* years
DatedNames ==
    {R1, R2, R3,
     RecordName(Class5, <<"4">>, <<"2", "4", ".", "0", "1", ".", "0", "6", ".", "1", "0", "1", "5">>)}

\* class folders of up to MaxFiles of these records, Headed or interrupted
DatedFolders ==
    UNION {{[n \in S |-> IF n \in H THEN HeadedBody(n) ELSE RawBody] : H \in SUBSET S} :
              S \in SubsetsUpTo(DatedNames, MaxFiles)}

\* configurations of the five positions: points 0, 3 or 5, a label or none
ScaleValues == [1..5 -> {0, 3, 5}]

ScaleNames == [1..5 -> {<< >>, <<"A">>}]

\* the student keys of the records already in the class folder
FiledKeys == {<<"1">>, <<"0", "1">>, <<"0", "0", "1">>, <<"A">>}

InitFunctions ==
    /\ fs = (Duplicates :> EmptyDir)
    /\ pre = fs
    /\ last = Idle
    /\ app = AppOff
    /\ now = 1
    /\ starts = 0
    /\ runs = 0
    /\ root = TRUE
    /\ \/ \E questions \in ScoreInputs : call = Applying("calculate_score", questions)
       \/ \E content \in HeadlessBodies, id \in TypedIds \ {<< >>}, name \in TypedNames :
             call = Applying("add_header_to_output_file",
                        [content |-> content, student_id |-> id, student_name |-> name])
       \/ \E impl \in {"script", "app"}, ts \in Timestamps :
             call = Applying("get_timestamp_for_sorting", <<impl, ts>>)
       \/ \E content \in HeadlessBodies : call = Applying("calculate_score twice", content)
       \/ \E a, b \in StudentKeys : call = Applying("normalize_student_id", <<a, b>>)
       \/ \E ts \in Timestamps : call = Applying("timestamp twice", ts)
       \/ \E student_id \in StudentKeys \ {<< >>},
             names \in {{}} \cup {{RecordName(Class5, k, TsA)} : k \in FiledKeys} :
             call = Applying("check_existing_student_file",
                             [student_id |-> student_id, names |-> names])
       \/ \E values \in ScaleValues, names \in ScaleNames :
             call = Applying("legend", [values |-> values, names |-> names])
       \/ \E dir \in DatedFolders :
             \E listing \in Orders(DOMAIN dir) :
                call = Applying("compile_class_summary", [dir |-> dir, listing |-> listing])
       \/ \E folder \in ScaleFolders :
             \E listing \in Orders(DOMAIN folder.dir) :
                call = Applying("get_point_scale_from_directory",
                           [dir |-> folder.dir, scales |-> folder.scales,
                            listing |-> listing])
       \/ \E filename \in FileNames : call = Applying("parse_filename", filename)
       \/ \E impl \in {"script", "app"}, listing \in Listings :
             call = Applying("find_duplicates_in_folder", <<impl, listing>>)
       \/ \E c \in ClassKeys, a, b \in NameKeys, t \in 1..Len(Clock), sec \in Seconds :
             call = Applying("create_output_file",
                        [class_number |-> c, student_id |-> a, other |-> b,
                         start |-> Append(Clock[t], sec)])
       \/ \E content \in HeadlessBodies, id \in TypedIds :
             call = Applying("generate_complete_report",
                        [content |-> content, student_id |-> id])

\* calculate_score(questions) of process_and_compile.py
CalculateScore ==
    /\ call.fn = "calculate_score" /\ ~call.done
    /\ call' = [call EXCEPT !.out = calculate_score(call.arg), !.done = TRUE]
    /\ UNCHANGED <<fs, pre, last, app, now, starts, runs, root>>

\* add_header_to_output_file after calculate_score, as show_score_summary
\* calls it, on the content of the output file
AddHeader ==
    /\ call.fn = "add_header_to_output_file" /\ ~call.done
    /\ call' = [call EXCEPT
           !.out = Completed(RecordOf(call.arg.student_id), call.arg.student_id,
                             call.arg.student_name, call.arg.content,
                             app_calculate_score(call.arg.content)),
           !.done = TRUE]
    /\ UNCHANGED <<fs, pre, last, app, now, starts, runs, root>>

\* generate_complete_report on an existing file, with the score main computes
\* from its decoded lines and the default point scale
GenerateReport ==
    /\ call.fn = "generate_complete_report" /\ ~call.done
    /\ \E score \in {calculate_score(ParseQuestions(call.arg.content))},
          filename \in {RecordOf(call.arg.student_id)} :
         \E r \in {generate_complete_report((filename :> call.arg.content), filename,
                        call.arg.student_id, score[1], score[2], score[3],
                        score[4], DefaultScale)} :
             call' = [call EXCEPT !.out = r.dir[filename], !.done = TRUE]
    /\ UNCHANGED <<fs, pre, last, app, now, starts, runs, root>>

\* normalize_student_id on the student segments of two record names
NormalizeStudentId ==
    /\ call.fn = "normalize_student_id" /\ ~call.done
    /\ call' = [call EXCEPT !.out = <<normalize_student_id(call.arg[1]),
                                       normalize_student_id(call.arg[2])>>,
                             !.done = TRUE]
    /\ UNCHANGED <<fs, pre, last, app, now, starts, runs, root>>

\* get_timestamp_for_sorting, or the application's inline copy of it, on the
\* timestamp segment of a record name
GetTimestampForSorting ==
    /\ call.fn = "get_timestamp_for_sorting" /\ ~call.done
    /\ call' = [call EXCEPT !.out = Stamp(call.arg[1], call.arg[2]), !.done = TRUE]
    /\ UNCHANGED <<fs, pre, last, app, now, starts, runs, root>>

\* the same answer lines scored by the application (calculate_score and the
\* question count of add_header_to_output_file) and by the script
\* (parse_incomplete_test, calculate_score):
\* << <<total, max, percentage, questions>>, <<total, max, percentage, questions>> >>
CalculateScoreTwice ==
    /\ call.fn = "calculate_score twice" /\ ~call.done
    /\ \E live \in {app_calculate_score(call.arg)},
          batch \in {calculate_score(parse_incomplete_test(call.arg).questions)} :
         call' = [call EXCEPT
                    !.out = <<Append(live, Cardinality(LiveQuestionNums(call.arg))), batch>>,
                    !.done = TRUE]
    /\ UNCHANGED <<fs, pre, last, app, now, starts, runs, root>>

\* create_output_file names the records of two students of a class who
\* start at the same time; parse_filename splits the names, and the script
\* and the application parse the timestamp segment of the first:
\* <<name, parsed, parsed of the other, instant (script), instant (app)>>
CreateOutputFile ==
    /\ call.fn = "create_output_file" /\ ~call.done
    /\ \E filename \in {RecordName(call.arg.class_number, call.arg.student_id,
                                    StampLong(call.arg.start))} :
         \E parsed \in {parse_filename(filename)} :
           call' = [call EXCEPT
                      !.out = <<filename, parsed,
                                parse_filename(RecordName(call.arg.class_number,
                                    call.arg.other, StampLong(call.arg.start))),
                                get_timestamp_for_sorting(parsed.ts),
                                app_timestamp(parsed.ts)>>,
                      !.done = TRUE]
    /\ UNCHANGED <<fs, pre, last, app, now, starts, runs, root>>

\* the Resolver (script or application) on a class folder "5" of completed
\* records that os.listdir lists in the order given; every move succeeds:
\* [store, moved, log, failed]
FindDuplicatesInFolder ==
    /\ call.fn = "find_duplicates_in_folder" /\ ~call.done
    /\ \E store \in {(Class5 :> [n \in Range(call.arg[2]) |-> HeadedBody(n)])
                      @@ (Duplicates :> EmptyDir)} :
         call' = [call EXCEPT
                    !.out = ResolveClasses(call.arg[1], <<Class5>>,
                                           (Class5 :> call.arg[2]), {}, NoMoves(store)),
                    !.done = TRUE]
    /\ UNCHANGED <<fs, pre, last, app, now, starts, runs, root>>

\* the timestamp segment of a record name parsed by the script
\* (get_timestamp_for_sorting) and by the application (the inline parse of
\* find_and_move_duplicates): <<instant, instant>>
TimestampTwice ==
    /\ call.fn = "timestamp twice" /\ ~call.done
    /\ call' = [call EXCEPT !.out = <<get_timestamp_for_sorting(call.arg),
                                       app_timestamp(call.arg)>>,
                             !.done = TRUE]
    /\ UNCHANGED <<fs, pre, last, app, now, starts, runs, root>>

\* a name of a class folder parsed by the Resolver (parse_filename) and by
\* the pipeline, whose loops pass a name to extract_info_from_filename only
\* when it starts with 'SpeakingTest_' and ends with '.txt':
\* <<[ok, class, student, ts], <<class_number, student_id, timestamp_str>>>>
ParseFilename ==
    /\ call.fn = "parse_filename" /\ ~call.done
    /\ call' = [call EXCEPT
                  !.out = <<parse_filename(call.arg),
                            IF StartsWith(call.arg, SpeakingTest_) /\ EndsWith(call.arg, DotTxt)
                            THEN extract_info_from_filename(call.arg)
                            ELSE << << >>, << >>, << >> >> >>,
                  !.done = TRUE]
    /\ UNCHANGED <<fs, pre, last, app, now, starts, runs, root>>

\* get_point_scale_from_directory on a class folder listed in some order
GetPointScale ==
    /\ call.fn = "get_point_scale_from_directory" /\ ~call.done
    /\ call' = [call EXCEPT
                  !.out = get_point_scale_from_directory(call.arg.dir,
                                                         call.arg.listing, << >>),
                  !.done = TRUE]
    /\ UNCHANGED <<fs, pre, last, app, now, starts, runs, root>>

\* compile_class_summary on the class folder "5" listed in some order, on
\* the first day of the clock: [dir, summary_file, entries, test_entries]
CompileClassSummary ==
    /\ call.fn = "compile_class_summary" /\ ~call.done
    /\ call' = [call EXCEPT
                  !.out = compile_class_summary(call.arg.dir, Class5, call.arg.listing,
                                                DateShort(Clock[1])),
                  !.done = TRUE]
    /\ UNCHANGED <<fs, pre, last, app, now, starts, runs, root>>

\* the legend of the header for one configuration of the five positions,
\* as add_header_to_output_file writes it and as generate_complete_report
\* writes it into the record R1: <<lines, lines>>
Legend ==
    /\ call.fn = "legend" /\ ~call.done
    /\ \E r \in {generate_complete_report((R1 :> RawBody), R1, <<"3">>, 5, 10, 50, 2,
                      [i \in 1..5 |-> [points |-> call.arg.values[i],
                                       name |-> call.arg.names[i]]]).dir[R1]} :
         call' = [call EXCEPT
                    !.out = <<LiveLegend(SortScale(IncludedScale(call.arg.values,
                                                                 call.arg.names))),
                              SubSeq(r, 6, Len(r) - Len(RawBody) - 1)>>,
                    !.done = TRUE]
    /\ UNCHANGED <<fs, pre, last, app, now, starts, runs, root>>

\* check_existing_student_file for the entered ID on a class folder
CheckExistingStudentFile ==
    /\ call.fn = "check_existing_student_file" /\ ~call.done
    /\ call' = [call EXCEPT
                  !.out = check_existing_student_file(call.arg.names,
                                                      call.arg.student_id),
                  !.done = TRUE]
    /\ UNCHANGED <<fs, pre, last, app, now, starts, runs, root>>

NextFunctions ==
    \/ CheckExistingStudentFile
    \/ Legend
    \/ CompileClassSummary
    \/ GetPointScale
    \/ ParseFilename
    \/ TimestampTwice
    \/ FindDuplicatesInFolder
    \/ CreateOutputFile
    \/ CalculateScoreTwice
    \/ GetTimestampForSorting
    \/ CalculateScore
    \/ AddHeader
    \/ GenerateReport
    \/ NormalizeStudentId

SpecFunctions == InitFunctions /\ [][NextFunctions]_vars

-----------------------------------------------------------------------------
(* Properties of the Duplicate Resolver, checked under SpecResolver        *)

\* the last step was a Resolver run, of the script or of the application
Resolved == last.op \in {"find_duplicates", "app_start"}

Impl == IF last.op = "app_start" THEN "app" ELSE "script"

\* the records of a class directory the Resolver considers
Records(dir) ==
    {n \in DOMAIN dir : parse_filename(n).ok /\ ~Contains(n, ProcessedMark)}

\* (class, normalized student key) of a record name
Key(n) == <<parse_filename(n).class, normalize_student_id(parse_filename(n).student)>>

Bucket(dir, k) == {n \in Records(dir) : Key(n) = k}

Keys(dir) == {Key(n) : n \in Records(dir)}

Instant(n) == Stamp(Impl, parse_filename(n).ts)

\* the last run moved the file n of class directory c, content intact
Quarantined(c, n) ==
    \E i \in 1..Len(last.log) :
        /\ last.log[i][1] = c
        /\ last.log[i][2] = n
        /\ last.log[i][3] \in DOMAIN fs[Duplicates]
        /\ fs[Duplicates][last.log[i][3]] = pre[c][n]

\* C2: after a Resolver run in which every move succeeds, of every bucket
\* whose instants are pairwise distinct exactly the record with the greatest
\* instant remains in the class directory, and every other member is in the
\* quarantine directory, whatever the scan order
C2_KeepsGreatest ==
    (Resolved /\ last.failed = {}) =>
        \A c \in ClassDirs(pre) : \A k \in Keys(pre[c]) :
            (\A a, b \in Bucket(pre[c], k) : a # b => Instant(a) # Instant(b)) =>
                \E m \in Bucket(pre[c], k) :
                    /\ \A n \in Bucket(pre[c], k) \ {m} :
                          TupleLess(Instant(n), Instant(m))
                    /\ Bucket(pre[c], k) \cap DOMAIN fs[c] = {m}
                    /\ fs[c][m] = pre[c][m]
                    /\ \A n \in Bucket(pre[c], k) \ {m} : Quarantined(c, n)

\* keys "3", "03", "3" at three instants: only the newest is left
C2_Witness ==
    /\ last.op = "find_duplicates"
    /\ last.failed = {}
    /\ {R1, R2, R3} \subseteq DOMAIN pre[Class5]
    /\ DOMAIN fs[Class5] = {R2}
    /\ last.moved >= 2

\* every bucket of every class directory of the store has one member
Clean(store) ==
    \A c \in ClassDirs(store) : \A k \in Keys(store[c]) :
        Cardinality(Bucket(store[c], k)) = 1

\* C3: after a Resolver run in which every move succeeds every bucket has
\* exactly one member; a run on a clean store (so a second run right after)
\* moves no file and changes nothing
C3_Idempotent ==
    /\ (Resolved /\ last.failed = {}) => Clean(fs)
    /\ (Resolved /\ Clean(pre)) => (last.moved = 0 /\ last.log = << >> /\ fs = pre)

\* a run that moved nothing, after a run that had moved a completed record
C3_Witness ==
    /\ Resolved
    /\ last.moved = 0
    /\ fs = pre
    /\ \E n \in DOMAIN fs[Duplicates] : fs[Duplicates][n] \notin {OldBody, RawBody}

\* the quarantine names taken before the i-th move of the last run
TakenBefore(i) == (DOMAIN pre[Duplicates]) \cup {last.log[j][3] : j \in 1..(i - 1)}

DupName(name, N) == SplitExt(name)[1] \o DupMark \o StrOf(N) \o SplitExt(name)[2]

\* C9: a move into the quarantine directory goes to the file's own name if
\* that is free, else to the first free <base>_dupN<ext>; it replaces no
\* file, and what was quarantined keeps its name and content
C9_NoOverwrite ==
    Resolved =>
        /\ \A i \in 1..Len(last.log) :
              /\ last.log[i][3] \notin TakenBefore(i)
              /\ \/ last.log[i][3] = last.log[i][2]
                 \/ /\ last.log[i][2] \in TakenBefore(i)
                    /\ \E N \in 1..(Cardinality(TakenBefore(i)) + 1) :
                          /\ last.log[i][3] = DupName(last.log[i][2], N)
                          /\ \A M \in 1..(N - 1) :
                                DupName(last.log[i][2], M) \in TakenBefore(i)
              /\ fs[Duplicates][last.log[i][3]] = pre[last.log[i][1]][last.log[i][2]]
        /\ \A n \in DOMAIN pre[Duplicates] :
              n \in DOMAIN fs[Duplicates] /\ fs[Duplicates][n] = pre[Duplicates][n]
        /\ Cardinality(DOMAIN fs[Duplicates])
              = Cardinality(DOMAIN pre[Duplicates]) + last.moved

\* a move whose own name and whose _dup1 name were both taken
C9_Witness ==
    /\ Resolved
    /\ \E i \in 1..Len(last.log) :
          /\ last.log[i][2] \in TakenBefore(i)
          /\ DupName(last.log[i][2], 1) \in TakenBefore(i)
          /\ last.log[i][3] = DupName(last.log[i][2], 2)

\* the timestamp string names a calendar instant: four dotted numeric
\* fields, a date that exists, a time of day
ValidTimestamp(ts) ==
    LET parts == Split(ts, ".")
    IN  /\ Len(parts) = 4
        /\ \A i \in 1..4 : IsDigit(parts[i])
        /\ Len(parts[1]) \in {2, 4}
        /\ Len(parts[4]) = 4
        /\ IntOf(parts[2]) \in 1..12
        /\ IntOf(parts[3]) \in
              1..DaysInMonth(IF Len(parts[1]) = 2 THEN 2000 + IntOf(parts[1])
                             ELSE IntOf(parts[1]), IntOf(parts[2]))
        /\ IntOf(Slice(parts[4], 0, 2)) <= 23
        /\ IntOf(Slice(parts[4], 2, 4)) <= 59
        /\ (Len(parts[1]) = 4 => IntOf(parts[1]) >= 1)

Valid(n) == ValidTimestamp(parse_filename(n).ts)

\* C10: of a bucket that holds a record with a valid timestamp and a record
\* with a malformed one, the Resolver keeps a record with a valid timestamp
C10_MalformedNeverKept ==
    (Resolved /\ last.failed = {}) =>
        \A c \in ClassDirs(pre) : \A k \in Keys(pre[c]) :
            ((\E v \in Bucket(pre[c], k) : Valid(v))
                /\ (\E m \in Bucket(pre[c], k) : ~Valid(m))) =>
                \A n \in Bucket(pre[c], k) \cap DOMAIN fs[c] : Valid(n)

\* the record n of class directory c is older than another member of its
\* bucket, in a bucket whose instants are pairwise distinct
Superseded(c, n) ==
    /\ n \in Records(pre[c])
    /\ \A a, b \in Bucket(pre[c], Key(n)) : a # b => Instant(a) # Instant(b)
    /\ \E m \in Bucket(pre[c], Key(n)) : TupleLess(Instant(n), Instant(m))

\* C15: a duplicate whose move fails is left at its original location with
\* its content and is not counted as moved; every other superseded record,
\* of the same bucket, of the other buckets and of the other class
\* directories, is still moved to the quarantine directory
C15_FailedMoveIsolated ==
    Resolved =>
        /\ \A p \in last.failed :
              /\ p[2] \in DOMAIN fs[p[1]]
              /\ fs[p[1]][p[2]] = pre[p[1]][p[2]]
              /\ \A i \in 1..Len(last.log) :
                    <<last.log[i][1], last.log[i][2]>> # p
        /\ last.moved = Len(last.log)
        /\ Cardinality(DOMAIN fs[Duplicates])
              = Cardinality(DOMAIN pre[Duplicates]) + last.moved
        /\ \A c \in ClassDirs(pre) : \A n \in DOMAIN pre[c] :
              Superseded(c, n) => (<<c, n>> \in last.failed \/ Quarantined(c, n))

\* the oldest of three records of one student cannot be moved: the second
\* oldest is moved all the same, and so is the duplicate of class "6"
C15_Witness ==
    /\ last.op = "find_duplicates"
    /\ last.failed = {<<Class5, R3>>}
    /\ R3 \in DOMAIN fs[Class5]
    /\ Quarantined(Class5, R1)
    /\ Quarantined(Class6, R1)
    /\ last.moved = 2

-----------------------------------------------------------------------------
(* Properties of the pipeline, checked under SpecPipeline                  *)

\* the last step was a run of process_and_compile.py
Piped == last.op = "process_and_compile"

\* the name qualifies for the pipeline: it parses and is no intermediate
Qualifies(n) ==
    /\ parse_filename(n).ok
    /\ ~Contains(n, UnprocessedMark)
    /\ ~Contains(n, ProcessedMark)

\* a Headless record with at least one decodable Answer line
Interrupted(body) == ~has_header(body) /\ ParseQuestions(body) # << >>

UnprocessedName(n) == Replace(n, DotTxt, UnprocessedMark)

\* C1: after a pipeline run, a Headless record with a parsable name and a
\* decodable Answer line is a Headed file under its original name, the
\* header followed by the original content, and the raw original is in the
\* quarantine directory as <name>_Unprocessed.txt or its _dupN variant
C1_CompletesHeadless ==
    Piped =>
        \A c \in ClassDirs(pre) : \A n \in DOMAIN pre[c] :
            (Qualifies(n) /\ Interrupted(pre[c][n])) =>
                /\ n \in DOMAIN fs[c]
                /\ has_header(fs[c][n])
                /\ Len(fs[c][n]) > Len(pre[c][n])
                /\ EndsWith(fs[c][n], pre[c][n])
                /\ \E q \in DOMAIN fs[Duplicates] :
                      /\ \/ q = UnprocessedName(n)
                         \/ \E N \in 1..(Cardinality(DOMAIN fs[Duplicates])) :
                               q = DupName(UnprocessedName(n), N)
                      /\ fs[Duplicates][q] = pre[c][n]

\* the lines of the summary the last run wrote for class c, without the head
SummaryLines(c) ==
    IF last.compiled[c].summary_file = << >> THEN << >>
    ELSE SubSeq(fs[c][last.compiled[c].summary_file], 5,
                Len(fs[c][last.compiled[c].summary_file]))

\* C4: for a record the application completed, the Compiler recovers the
\* student key (zero-padded), the name, the total, the maximum and the
\* percentage written into its header, and the summary line shows them
C4_ExtractInvertsSynthesis ==
    Piped =>
        \A c \in DOMAIN last.compiled :
            \A i \in 1..Len(last.compiled[c].test_entries) :
                LET e == last.compiled[c].test_entries[i]
                    key == TypedKey(e.filename)
                IN  pre[c][e.filename] = HeadedBody(e.filename) =>
                        /\ e.student_id = (IF IsDigit(key) THEN ZFill(key, 2) ELSE key)
                        /\ e.student_name = << >>
                        /\ <<e.total_score, e.max_score, e.percentage>>
                              = app_calculate_score(RawBody)
                        /\ Contains(SummaryLines(c)[i],
                               StrOf(app_calculate_score(RawBody)[1]) \o <<"/">>
                               \o StrOf(app_calculate_score(RawBody)[2]))

\* s is t with some elements left out
RECURSIVE IsSubsequence(_, _)
IsSubsequence(s, t) ==
    IF s = << >> THEN TRUE
    ELSE IF t = << >> THEN FALSE
    ELSE IF Head(s) = Head(t) THEN IsSubsequence(Tail(s), Tail(t))
    ELSE IsSubsequence(s, Tail(t))

\* C5: the Compiler writes a line for a record if and only if its name
\* parses, is no intermediate, and its body is Headed; the lines are in
\* scan order and the count returned is the number of lines
C5_LineIffHeaded ==
    Piped =>
        \A c \in DOMAIN last.compiled :
            LET listed == [i \in 1..Len(last.compiled[c].test_entries) |->
                              last.compiled[c].test_entries[i].filename]
            IN  /\ \A n \in DOMAIN pre[c] :
                      (n \in Range(listed)) <=> (Qualifies(n) /\ has_header(pre[c][n]))
                /\ IsSubsequence(listed, last.compiled[c].listing)
                /\ last.compiled[c].entries = Len(SummaryLines(c))
                /\ Len(listed) = Len(SummaryLines(c))

\* the Headed records of class c the last run could list: parsable name,
\* no intermediate
HeadedRecords(c) ==
    {n \in DOMAIN pre[c] : Qualifies(n) /\ has_header(pre[c][n])}

\* the column layout of an entry line with a key of at most two characters:
\* yy.mm.dd.HHMM, the key in 2 columns, the name in 20, score/max right in
\* 10, the percentage right in 5
Layout(line) ==
    /\ Len(line) = 63
    /\ \A i \in {3, 6, 9} : line[i] = "."
    /\ \A i \in {1, 2, 4, 5, 7, 8, 10, 11, 12, 13} : line[i] \in DigitSet
    /\ SubSeq(line, 14, 19) = <<":", " ", " ", " ", "Student", " ">>
    /\ line[22] = " "
    /\ SubSeq(line, 43, 45) = <<":", " ", " ">>
    /\ line[55] \in DigitSet
    /\ \E i \in 46..54 : line[i] = "/"
    /\ SubSeq(line, 56, 58) = <<" ", "=", " ">>
    /\ line[62] \in DigitSet
    /\ line[63] = "%"

\* C13: compiling a class without a Headed record writes no file, returns 0
\* and leaves the directory, an existing summary included, as it was;
\* compiling a class with one Headed record writes one entry line in the
\* column layout and returns 1
C13_NoneOrOneLine ==
    Piped =>
        \A c \in DOMAIN last.compiled :
            /\ HeadedRecords(c) = {} =>
                  /\ last.compiled[c].entries = 0
                  /\ last.compiled[c].summary_file = << >>
                  /\ fs[c] = pre[c]
            /\ Cardinality(HeadedRecords(c)) = 1 =>
                  /\ last.compiled[c].entries = 1
                  /\ Len(SummaryLines(c)) = 1
                  /\ Layout(SummaryLines(c)[1])

\* line is the entry line of the Headed record n: the hour and minute of its
\* name, its student key in two columns
LineOf(line, n) ==
    /\ Layout(line)
    /\ SubSeq(line, 10, 13) = Slice(Split(parse_filename(n).ts, ".")[4], 0, 4)
    /\ SubSeq(line, 20, 21) = ZFill(parse_filename(n).student, 2)

C16_FailureDoesNotAbort ==
    Piped =>
        /\ \A c \in ClassDirs(pre) : c \in DOMAIN last.compiled
        /\ \A c \in ClassDirs(pre) : \A n \in DOMAIN pre[c] :
              (Qualifies(n) /\ Interrupted(pre[c][n])) => n \in DOMAIN fs[c]

\* the body holds a byte that is no UTF-8
Undecodable(body) == \E i \in 1..Len(body) : BadByte \in Range(body[i])

\* the last run collected a summary entry from the file n of class c
Entered(c, n) ==
    /\ c \in DOMAIN last.compiled
    /\ \E i \in 1..Len(last.compiled[c].test_entries) :
          last.compiled[c].test_entries[i].filename = n

\* C17: a record whose body cannot be read is skipped by the completion
\* step and by the Compiler: after the run it is in its class directory
\* under its name with its content, no file of the quarantine directory is
\* made from it, and no summary entry is collected from it
C17_UnreadableLeftAlone ==
    Piped =>
        \A c \in ClassDirs(pre) : \A n \in DOMAIN pre[c] :
            (Qualifies(n) /\ Undecodable(pre[c][n])) =>
                /\ n \in DOMAIN fs[c]
                /\ fs[c][n] = pre[c][n]
                /\ UnprocessedName(n) \in DOMAIN fs[c]
                      => UnprocessedName(n) \in DOMAIN pre[c]
                /\ \A q \in (DOMAIN fs[Duplicates]) \ DOMAIN pre[Duplicates] :
                      fs[Duplicates][q] # pre[c][n]
                /\ ~Entered(c, n)

\* an undecodable Headed record next to a readable one: the Compiler writes
\* the summary with the readable record's line only
C17_Witness ==
    /\ Piped
    /\ ~last.raised
    /\ R1 \in DOMAIN pre[Class5]
    /\ pre[Class5][R1] = Corrupt(HeadedBody(R1))
    /\ Entered(Class5, R5)
    /\ last.compiled[Class5].entries = 1

\* an undecodable Headless record next to a readable one that the
\* completion step takes up
C17_WitnessHeadless ==
    /\ Piped
    /\ R1 \in DOMAIN pre[Class5]
    /\ pre[Class5][R1] = Corrupt(RawBody)
    /\ R5 \in DOMAIN pre[Class5]
    /\ UnprocessedName(R5) \in DOMAIN fs[Class5]

-----------------------------------------------------------------------------
(* Properties of records across the application and the scripts, checked   *)
(* under Spec                                                              *)

\* the rows of a body that are the summary line of a header
SummaryRows(body) ==
    {i \in 1..Len(body) : "Total Questions:" \in Range(body[i])}

\* how many headers a body carries
HeaderCount(body) == Cardinality(SummaryRows(body))

\* the record files of a store: (directory, name) with a record name
RecordFiles(store) ==
    {p \in Paths(store) \cup {<<Duplicates, n>> : n \in DOMAIN store[Duplicates]} :
        /\ p[2] \in DOMAIN store[p[1]]
        /\ parse_filename(p[2]).ok}

\* the step starts a test: submit_student, start_test, create_output_file
TestStart == starts' = starts + 1

\* the step completes a test: the last click, show_score_summary
TestCompletion == app.screen = "image" /\ app'.screen = "score_summary"

\* the step is a run of process_and_compile.py
PipelineRun == runs' = runs + 1 /\ last'.op = "process_and_compile"

\* the file keeps its place and its content in the step
KeptInPlace(p) == p[2] \in DOMAIN fs'[p[1]] /\ fs'[p[1]][p[2]] = fs[p[1]][p[2]]

\* the file is moved by the step to a new quarantine name, content intact
Relocated(p) ==
    \E q \in (DOMAIN fs'[Duplicates]) \ (DOMAIN fs[Duplicates]) :
        fs'[Duplicates][q] = fs[p[1]][p[2]]

\* C6: once the body of a record is Headed, no step of the application or of
\* the scripts changes its content: the record stays as it is, or it is
\* moved to the quarantine directory with the same content
C6_HeadedImmutable ==
    [][\A p \in RecordFiles(fs) :
           has_header(fs[p[1]][p[2]]) => (KeptInPlace(p) \/ Relocated(p))]_vars

\* no body ever carries two headers
NeverTwoHeaders ==
    \A c \in DOMAIN fs : \A n \in DOMAIN fs[c] : HeaderCount(fs[c][n]) <= 1

\* C7: a record is given a header exactly once: no body carries two headers,
\* the completion of a test leaves its record with one header, a pipeline run
\* leaves a record that has a header as it is and leaves an interrupted
\* record with one header under its name
C7_HeadedExactlyOnce ==
    [][/\ \A c \in DOMAIN fs' : \A n \in DOMAIN fs'[c] : HeaderCount(fs'[c][n]) <= 1
       /\ TestCompletion =>
              /\ Exists(fs', app.class_folder, app.output_file)
              /\ HeaderCount(fs'[app.class_folder][app.output_file]) = 1
       /\ PipelineRun =>
              \A p \in RecordFiles(fs) :
                  (p[1] # Duplicates /\ Qualifies(p[2])) =>
                      /\ HeaderCount(fs[p[1]][p[2]]) = 1 => KeptInPlace(p)
                      /\ Interrupted(fs[p[1]][p[2]]) =>
                             /\ p[2] \in DOMAIN fs'[p[1]]
                             /\ HeaderCount(fs'[p[1]][p[2]]) = 1]_vars

\* C8: starting a test creates a file whose name no file of the class folder
\* had, and every file that existed keeps its content
C8_StartKeepsRecords ==
    [][TestStart =>
           /\ app'.output_file \notin DOMAIN fs[app.class_folder]
           /\ \A c \in DOMAIN fs : \A n \in DOMAIN fs[c] :
                  n \in DOMAIN fs'[c] /\ fs'[c][n] = fs[c][n]]_vars

-----------------------------------------------------------------------------
(* Properties of the functions, checked under SpecFunctions                *)

\* fn has been applied to call.arg and call.out is what it returned
Applied(fn) == call.fn = fn /\ call.done

\* the question indices of decoded answer lines
Indices(questions) == {questions[i][1] : i \in 1..Len(questions)}

\* the position of the last line of question q
LastIndex(questions, q) ==
    CHOOSE i \in 1..Len(questions) :
        /\ questions[i][1] = q
        /\ \A j \in (i + 1)..Len(questions) : questions[j][1] # q

\* question index -> the point value of its last line
LastPoints(questions) ==
    [q \in Indices(questions) |-> questions[LastIndex(questions, q)][2]]

\* p is an integer nearest to 100 * total / max
Nearest(p, total, max) ==
    /\ 2 * (100 * total - p * max) <= max
    /\ 2 * (p * max - 100 * total) <= max

\* C11: calculate_score counts the last line of each question index only:
\* the question count is the number of distinct indices, the total the sum
\* of the last point values, the maximum the count times the largest of
\* them, the percentage total / maximum x 100 rounded, 0 for maximum 0
C11_LastWriteWins ==
    Applied("calculate_score") =>
        LET lp == LastPoints(call.arg)
            n == Cardinality(DOMAIN lp)
            top == IF n = 0 THEN 0
                   ELSE CHOOSE v \in {lp[q] : q \in DOMAIN lp} :
                            \A q \in DOMAIN lp : lp[q] <= v
        IN  /\ call.out[4] = n
            /\ call.out[1] = SumOver(lp, DOMAIN lp)
            /\ call.out[2] = n * top
            /\ n * top = 0 => call.out[3] = 0
            /\ n * top > 0 => Nearest(call.out[3], call.out[1], n * top)

\* the lines (0,5), (0,0), (1,5) give total 5, max 10, 50 %, 2 questions
C11_Witness ==
    /\ Applied("calculate_score")
    /\ call.arg = << <<0, 5>>, <<0, 0>>, <<1, 5>> >>
    /\ call.out = <<5, 10, 50, 2>>

\* C12: the body header synthesis makes of a Headless body, live or batch,
\* is reported Headed by the header test, and the original body is its exact
\* suffix: every answer line present, unaltered, in the original order
C12_SynthesisWraps ==
    (Applied("add_header_to_output_file") \/ Applied("generate_complete_report")) =>
        /\ ~has_header(call.arg.content)
        /\ has_header(call.out)
        /\ Len(call.out) > Len(call.arg.content)
        /\ SubSeq(call.out, Len(call.out) - Len(call.arg.content) + 1, Len(call.out))
              = call.arg.content

\* a body of MaxAnswers answer lines, not all alike, has been wrapped
C12_Witness ==
    /\ Applied("add_header_to_output_file") \/ Applied("generate_complete_report")
    /\ Len(call.arg.content) = MaxAnswers
    /\ call.arg.content[1] # call.arg.content[2]
    /\ has_header(call.out)
    /\ EndsWith(call.out, call.arg.content)

\* a key of digits without its leading zeros; one character always stays
RECURSIVE StripZeros(_)
StripZeros(k) ==
    IF Len(k) > 1 /\ Head(k) = "0" THEN StripZeros(Tail(k)) ELSE k

AllDigit(k) == k # << >> /\ \A i \in 1..Len(k) : k[i] \in DigitSet

Stripped(k) == IF AllDigit(k) THEN StripZeros(k) ELSE k

C18_WitnessLiteral ==
    /\ Applied("normalize_student_id")
    /\ call.arg = << <<"A">>, <<"0", "A">> >>
    /\ call.out[1] # call.out[2]

\* the instant a valid timestamp names, a 2-digit year taken as 20YY
InstantOf(ts) ==
    LET parts == Split(ts, ".")
    IN  <<IF Len(parts[1]) = 2 THEN 2000 + IntOf(parts[1]) ELSE IntOf(parts[1]),
          IntOf(parts[2]), IntOf(parts[3]),
          IntOf(Slice(parts[4], 0, 2)), IntOf(Slice(parts[4], 2, 4))>>

\* C19: of a valid timestamp the parse returns the instant it names, of a
\* malformed one the sentinel 1900-01-01 00:00
C19_InstantOrSentinel ==
    Applied("get_timestamp_for_sorting") =>
        call.out = IF ValidTimestamp(call.arg[2]) THEN InstantOf(call.arg[2])
                   ELSE Sentinel

\* C22: the application and the script compute the same total, max score,
\* percentage and question count from the same answer lines
C22_LiveEqualsBatch ==
    Applied("calculate_score twice") => call.out[1] = call.out[2]

-----------------------------------------------------------------------------
(* Properties of the batch commands' start, checked under SpecBatch        *)

\* C20: a batch command started without a Records directory ends with the
\* directory still missing and nothing created in its place, the quarantine
\* directory included, after reporting that Records was not found
C20_MissingRootUntouched ==
    [][(~root /\ last'.op \in {"find_duplicates", "process_and_compile"}) =>
          /\ ~root'
          /\ fs' = fs
          /\ last'.not_found
          /\ ~last'.raised]_vars

\* find_duplicates.py has run without a Records directory
C20_Witness ==
    /\ ~root
    /\ last.op = "find_duplicates"
    /\ last.not_found
    /\ DOMAIN fs = {}

\* process_and_compile.py has run without a Records directory
C20_WitnessPipeline ==
    /\ ~root
    /\ last.op = "process_and_compile"
    /\ last.not_found
    /\ DOMAIN fs = {}

\* with a Records directory that has no quarantine directory the commands
\* create it
C20_WitnessCreated ==
    /\ root
    /\ last.op = "find_duplicates"
    /\ Duplicates \notin DOMAIN pre
    /\ Duplicates \in DOMAIN fs

\* the last step was a run of one of the batch commands
Ran == last.op \in {"find_duplicates", "process_and_compile"}

\* C21: a batch command that runs to completion exits with status zero,
\* with or without work found; one that finds no Records directory exits
\* with a non-zero status
C21_ExitStatus ==
    Ran => /\ (~last.not_found /\ ~last.raised) => last.status = 0
           /\ last.not_found => last.status # 0

-----------------------------------------------------------------------------
(* Properties of intermediate files, checked under SpecLeftover            *)

\* the name of a file an interrupted completion left behind
Intermediate(n) == Contains(n, UnprocessedMark)

\* C23: a run of the pipeline or of a Resolver ignores an intermediate file
\* of a class directory: it stays where it is with its content, no summary
\* entry is collected from it, and every record the run moves is a record
\* of which a newer, regular record of the same student stays behind
C23_IntermediateIgnored ==
    (Piped \/ Resolved) =>
        /\ \A c \in ClassDirs(pre) : \A n \in DOMAIN pre[c] :
              Intermediate(n) =>
                  /\ n \in DOMAIN fs[c]
                  /\ fs[c][n] = pre[c][n]
                  /\ ~Entered(c, n)
        /\ \A i \in 1..Len(last.log) :
              /\ ~Intermediate(last.log[i][2])
              /\ \E k \in DOMAIN fs[last.log[i][1]] :
                    /\ ~Intermediate(k)
                    /\ parse_filename(k).ok
                    /\ Key(k) = Key(last.log[i][2])

-----------------------------------------------------------------------------
(* Properties of the class summary as a view, checked under SpecLive       *)

\* the class summary files of class directory c: <class>_SpeakingTest.<date>.txt
SummaryFiles(c) ==
    {n \in DOMAIN fs[c] : ~StartsWith(n, SpeakingTest_)
                           /\ Contains(n, <<"_">> \o SpeakingTest \o <<".">>)}

\* the entry lines of the summaries of c, as (file, row)
EntryRows(c) ==
    UNION {{<<f, i>> : i \in 5..Len(fs[c][f])} : f \in SummaryFiles(c)}

\* the Headed records that are in class directory c now
HeadedNow(c) ==
    {n \in DOMAIN fs[c] : parse_filename(n).ok /\ has_header(fs[c][n])}

\* C24: the entry lines of a class's summary and the Headed records now in
\* the class directory correspond one to one, each line showing the student
\* of its record
C24_SummaryIsView ==
    \A c \in ClassDirs(fs) :
        \E m \in [EntryRows(c) -> HeadedNow(c)] :
            /\ \A r1, r2 \in EntryRows(c) : m[r1] = m[r2] => r1 = r2
            /\ \A n \in HeadedNow(c) : \E r \in EntryRows(c) : m[r] = n
            /\ \A r \in EntryRows(c) :
                  SubSeq(fs[c][r[1]][r[2]], 20, 21)
                      = ZFill(parse_filename(m[r]).student, 2)

-----------------------------------------------------------------------------
(* Properties of completion, Resolver and Compiler in a row, checked under *)
(* SpecSequence                                                            *)

\* the three commands have run and none of them ended in an exception
Sequenced == last.op = "complete_resolve_compile" /\ ~last.raised

\* the identities of class c that had a record with a header or with a
\* decodable answer line
ScoredKeys(c) ==
    {Key(n) : n \in {m \in DOMAIN pre[c] :
        /\ Qualifies(m)
        /\ has_header(pre[c][m]) \/ ParseQuestions(pre[c][m]) # << >>}}

\* the entry lines of the summaries of class c that show the student of
\* identity k
LinesOf(c, k) ==
    {r \in EntryRows(c) : SubSeq(fs[c][r[1]][r[2]], 20, 21) = ZFill(k[2], 2)}

\* C25: after completion, Resolver and Compiler every identity that had a
\* record with a header or a decodable answer line has exactly one line in
\* the summary of its class
C25_OneLinePerIdentity ==
    Sequenced =>
        \A c \in ClassDirs(pre) :
            \A k \in ScoredKeys(c) : Cardinality(LinesOf(c, k)) = 1

-----------------------------------------------------------------------------
(* C26 : no step deletes record content                                    *)

\* a record's name, intermediates included
IsRecordName(n) == StartsWith(n, SpeakingTest_) /\ EndsWith(n, DotTxt)

\* a line of a record that decodes as an Answer
IsAnswer(line) == MatchQuestion(Strip(line)).ok

AnswerLinesOf(body) == SelectSeq(body, IsAnswer)

\* the Answer lines of body stand, in order, in some file under the root
KeptSomewhere(body) ==
    \E d \in DOMAIN fs : \E m \in DOMAIN fs[d] :
        IsSubsequence(AnswerLinesOf(body), fs[d][m])

\* C26 : at every step of a Resolver run and of a pipeline run (a move to the
\* quarantine directory, the rename to _Unprocessed, the write of the headed
\* file with the move of the intermediate, the rewrite of a summary), and
\* when the run has stopped there, the Answer lines of every record that
\* was under the records root when the command started are in some file
\* under the root.
C26_ContentKept ==
    \A d \in DOMAIN pre : \A n \in DOMAIN pre[d] :
        IsRecordName(n) => KeptSomewhere(pre[d][n])
-----------------------------------------------------------------------------
(* C27 : the names the application creates parse back                      *)

\* the Resolver bucket of a parsed name
BucketKey(parsed) == <<parsed.class, normalize_student_id(parsed.student)>>

\* C27 : the name create_output_file makes for a class key, a student key and
\* a start time parses back with parse_filename to that class key, that
\* student key and the timestamp written, the timestamp parses (script and
\* application) to the start time truncated to the minute, and the records
\* of two students of different identity get different bucket keys.
C27_NameRoundTrip ==
    Applied("create_output_file") =>
        /\ call.out[2] = [ok |-> TRUE, class |-> call.arg.class_number,
                          student |-> call.arg.student_id,
                          ts |-> StampLong(call.arg.start)]
        /\ call.out[4] = SubSeq(call.arg.start, 1, 5)
        /\ call.out[5] = SubSeq(call.arg.start, 1, 5)
        /\ (normalize_student_id(call.arg.student_id) # normalize_student_id(call.arg.other)
              => BucketKey(call.out[2]) # BucketKey(call.out[3]))
-----------------------------------------------------------------------------
(* C28 : the pipeline run twice in succession, checked under SpecTwice     *)

\* the last step was the second of two pipeline runs in a row
PipedAgain == last.op = "process_and_compile again"

\* the class summary files of directory dir, with their content
SummariesIn(dir) ==
    [n \in {m \in DOMAIN dir : ~StartsWith(m, SpeakingTest_)} |-> dir[n]]

\* C28 : the second of two pipeline runs in succession completes no record,
\* leaves the quarantine directory as it was, reaches the Compiler of every
\* class directory and leaves there the summary files the first run left,
\* with the same content.
C28_SecondRunIdle ==
    PipedAgain =>
        /\ last.processed = 0
        /\ fs[Duplicates] = pre[Duplicates]
        /\ \A c \in ClassDirs(fs) :
              /\ c \in DOMAIN last.compiled
              /\ SummariesIn(fs[c]) = SummariesIn(pre[c])
-----------------------------------------------------------------------------
(* C29 : what completion leaves alone, checked under SpecPipeline          *)

\* the body carries the summary line of a header
Headed(body) == HeaderCount(body) >= 1

\* a record completion has nothing to do for: it is Headed, or it is
\* Headless and none of its lines decodes as an Answer
Settled(body) == Headed(body) \/ AnswerLinesOf(body) = << >>

\* C29 : a pipeline run leaves every record that was Headed, or Headless
\* without a decodable Answer line, in its class directory under its name
\* with its content; it makes no intermediate of it in the class directory
\* and no file of the quarantine directory.
C29_SettledUntouched ==
    (Piped /\ ~last.not_found) =>
        \A c \in ClassDirs(pre) : \A n \in DOMAIN pre[c] :
            (IsRecordName(n) /\ Settled(pre[c][n])) =>
                /\ n \in DOMAIN fs[c]
                /\ fs[c][n] = pre[c][n]
                /\ UnprocessedName(n) \in DOMAIN fs[c]
                      => /\ UnprocessedName(n) \in DOMAIN pre[c]
                         /\ fs[c][UnprocessedName(n)] = pre[c][UnprocessedName(n)]
                /\ \A q \in (DOMAIN fs[Duplicates]) \ (DOMAIN pre[Duplicates]) :
                      ~StartsWith(q, SplitExt(n)[1])

\* a run that renamed an interrupted record of class "5" and left a Headed
\* and an empty record of the class where they were
C29_Witness ==
    /\ Piped
    /\ \E n, m, k \in DOMAIN pre[Class5] :
          /\ IsRecordName(n) /\ Headed(pre[Class5][n])
          /\ IsRecordName(m) /\ pre[Class5][m] = << >>
          /\ Interrupted(pre[Class5][k])
          /\ k \notin DOMAIN fs[Class5]
          /\ {n, m} \subseteq DOMAIN fs[Class5]

\* a run to its end over Headed records only: the summary is written, the
\* records are as they were
C29_WitnessHeaded ==
    /\ Piped /\ ~last.raised
    /\ \E n \in DOMAIN pre[Class5] : IsRecordName(n) /\ Headed(pre[Class5][n])
    /\ \A n \in DOMAIN pre[Class5] : n \in DOMAIN fs[Class5]
    /\ fs[Class5] # pre[Class5]
-----------------------------------------------------------------------------
(* C30 : equal instants, checked under SpecFunctions                       *)

\* the place of the name n in the listing
Pos(listing, n) == CHOOSE i \in 1..Len(listing) : listing[i] = n

\* the names of the listing in the bucket of n
BucketOf(listing, n) ==
    {m \in Range(listing) : BucketKey(parse_filename(m)) = BucketKey(parse_filename(n))}

\* n has the greatest instant of its bucket and of the names of that instant
\* it is listed last
LastOfGreatest(impl, listing, n) ==
    \A m \in BucketOf(listing, n) \ {n} :
        \/ TupleLess(Stamp(impl, parse_filename(m).ts), Stamp(impl, parse_filename(n).ts))
        \/ /\ Stamp(impl, parse_filename(m).ts) = Stamp(impl, parse_filename(n).ts)
           /\ Pos(listing, m) < Pos(listing, n)

\* C30 : records of a bucket with equal instants are moved in the order in
\* which they were listed, and of every bucket of two or more records the
\* one kept is, among those with the greatest instant, the one listed last;
\* every other one is in the quarantine directory.
C30_TiesKeepScanOrder ==
    Applied("find_duplicates_in_folder") =>
        /\ \A n \in Range(call.arg[2]) :
              (n \in DOMAIN call.out.store[Class5])
                  <=> LastOfGreatest(call.arg[1], call.arg[2], n)
        /\ \A n \in Range(call.arg[2]) :
              n \notin DOMAIN call.out.store[Class5]
                  => n \in DOMAIN call.out.store[Duplicates]
        /\ \A i, j \in 1..Len(call.out.log) :
              (/\ i < j
               /\ call.out.log[j][2] \in BucketOf(call.arg[2], call.out.log[i][2])
               /\ Stamp(call.arg[1], parse_filename(call.out.log[i][2]).ts)
                     = Stamp(call.arg[1], parse_filename(call.out.log[j][2]).ts))
                  => Pos(call.arg[2], call.out.log[i][2]) < Pos(call.arg[2], call.out.log[j][2])

\* three records of student 3 at 09:30, the one typed "3" listed last and
\* kept, the two others moved
C30_Witness ==
    /\ Applied("find_duplicates_in_folder")
    /\ Len(call.arg[2]) = 3
    /\ call.arg[2][3] = R1
    /\ \A i \in 1..2 : /\ call.arg[2][i] \in BucketOf(call.arg[2], R1)
                        /\ Stamp(call.arg[1], parse_filename(call.arg[2][i]).ts)
                              = Stamp(call.arg[1], parse_filename(R1).ts)
    /\ DOMAIN call.out.store[Class5] = {R1}
    /\ call.out.moved = 2
-----------------------------------------------------------------------------
(* C31 : the two timestamp parsers, checked under SpecFunctions            *)

\* C31 : the script and the application give the same instant for every
\* timestamp string.
C31_SameInstant ==
    Applied("timestamp twice") => call.out[1] = call.out[2]
-----------------------------------------------------------------------------
(* C32 : the segments of a record name, checked under SpecFunctions        *)

\* the '_'-delimited segments of a name without its extension '.txt'
SegmentsOf(filename) == Split(SubSeq(filename, 1, Len(filename) - Len(DotTxt)), "_")

\* the name has the form SpeakingTest_<...>.txt with four segments or more
RecordForm(filename) ==
    /\ StartsWith(filename, SpeakingTest_)
    /\ EndsWith(filename, DotTxt)
    /\ Len(SegmentsOf(filename)) >= 4

\* C32 : for a name of the form SpeakingTest_<...>.txt with at least four
\* '_'-delimited segments the parsers return its second, third and fourth
\* segment as class key, student key and timestamp; for every other name
\* they return nothing.
C32_PositionalSegments ==
    Applied("parse_filename") =>
        IF RecordForm(call.arg)
        THEN /\ call.out[1] = [ok |-> TRUE, class |-> SegmentsOf(call.arg)[2],
                               student |-> SegmentsOf(call.arg)[3],
                               ts |-> SegmentsOf(call.arg)[4]]
             /\ call.out[2] = <<SegmentsOf(call.arg)[2], SegmentsOf(call.arg)[3],
                                SegmentsOf(call.arg)[4]>>
        ELSE /\ call.out[1] = NoParse
             /\ call.out[2] = << << >>, << >>, << >> >>
-----------------------------------------------------------------------------
(* C33 : the point scale of a class, checked under SpecFunctions           *)

\* C33 : the point scale batch completion uses for a class folder is the
\* scale of the legend of a Headed record of the folder, and the default
\* scale when no record of the folder carries a legend.
C33_ScaleFromLegend ==
    Applied("get_point_scale_from_directory") =>
        IF call.arg.scales = {} THEN call.out = DefaultScale
        ELSE \E scale \in call.arg.scales : Range(call.out) = Range(scale)
-----------------------------------------------------------------------------
(* C34, C35 : the date of a compiled summary, checked under SpecFunctions  *)

\* the records of the listing the Compiler has a line for: Headed, in
\* listing order
QualifyingOf(dir, listing) ==
    LET Q(n) == IsRecordName(n) /\ ~Intermediate(n) /\ Headed(dir[n])
    IN  SelectSeq(listing, Q)

\* the timestamp of the record name n
TimestampOf(n) == SegmentsOf(n)[4]

\* a timestamp YEAR.MM.DD.HHMM with the year cut to its last two digits
TwoDigitYear(ts) ==
    IF Len(Split(ts, ".")[1]) = 4 THEN SubSeq(ts, 3, Len(ts)) ELSE ts

\* the date of a timestamp in two-digit-year form: YY.MM.DD
TwoDigitDate(ts) == SubSeq(TwoDigitYear(ts), 1, 8)

C35_OwnTimestamp ==
    (Applied("compile_class_summary")
        /\ QualifyingOf(call.arg.dir, call.arg.listing) # << >>) =>
        \A i \in 1..Len(QualifyingOf(call.arg.dir, call.arg.listing)) :
            SubSeq(call.out.dir[call.out.summary_file][4 + i], 1, 13)
                = TwoDigitYear(TimestampOf(QualifyingOf(call.arg.dir, call.arg.listing)[i]))
-----------------------------------------------------------------------------
(* C36 : the legend of a header, checked under SpecFunctions               *)

\* the positions of a configuration that have points or a label
Shown(values, names) == {i \in 1..5 : values[i] # 0 \/ names[i] # << >>}

\* ord lists positions by descending points, equal points by ascending
\* position
Descending(values, ord) ==
    \A i, j \in 1..Len(ord) :
        i < j => \/ values[ord[i]] > values[ord[j]]
                 \/ (values[ord[i]] = values[ord[j]] /\ ord[i] < ord[j])

\* C36 : the legend has the line '<points> = <label>' for exactly the
\* positions with points other than 0 or a label, by descending points and,
\* for equal points, ascending position; the application and the batch
\* script write the same lines.
C36_LegendOrder ==
    Applied("legend") =>
        /\ call.out[1] = call.out[2]
        /\ \E ord \in Orders(Shown(call.arg.values, call.arg.names)) :
              /\ Descending(call.arg.values, ord)
              /\ call.out[1] = [i \in 1..Len(ord) |->
                                  LegendLine(call.arg.values[ord[i]],
                                             call.arg.names[ord[i]])]

\* positions 2 and 4 with 5 points, position 1 with 3, position 3 with a
\* label only, position 5 left out: four lines
C36_Witness ==
    /\ Applied("legend")
    /\ call.arg.values = <<3, 5, 0, 5, 0>>
    /\ call.arg.names = << <<"A">>, << >>, <<"A">>, <<"A">>, << >> >>
    /\ call.out[1] = <<LegendLine(5, << >>), LegendLine(5, <<"A">>),
                        LegendLine(3, <<"A">>), LegendLine(0, <<"A">>)>>
-----------------------------------------------------------------------------
(* C37 : what a Resolver run leaves alone, checked under SpecFrame         *)

\* the files (class directory, name) the last run moved
MovedFiles == {<<last.log[i][1], last.log[i][2]>> : i \in 1..Len(last.log)}

-----------------------------------------------------------------------------
(* C38 : the range of calculate_score, checked under SpecFunctions         *)

\* C38 : for every sequence of decoded answer lines the batch
\* calculate_score returns 0 <= total <= max and 0 <= percentage <= 100,
\* the question count is the number of distinct question indices, and
\* without a line all four values are 0.
C38_ScoreInRange ==
    Applied("calculate_score") =>
        /\ 0 <= call.out[1] /\ call.out[1] <= call.out[2]
        /\ 0 <= call.out[3] /\ call.out[3] <= 100
        /\ call.out[4] = Cardinality({call.arg[i][1] : i \in 1..Len(call.arg)})
        /\ call.arg = << >> => call.out = <<0, 0, 0, 0>>

\* the lines (0,5), (0,2), (1,3) give total 5 of 6, 83 %, 2 questions
C38_Witness ==
    /\ Applied("calculate_score")
    /\ call.arg = << <<0, 5>>, <<0, 2>>, <<1, 3>> >>
    /\ call.out = <<5, 6, 83, 2>>
-----------------------------------------------------------------------------
(* C39 : the existing-record check, checked under SpecFunctions            *)

\* C39 : check_existing_student_file reports a match exactly when the class
\* folder holds a record whose student key has the normalized identity of
\* the entered ID, as normalize_student_id gives it for the Resolver.
C39_SameIdentity ==
    Applied("check_existing_student_file") =>
        (call.out <=>
            \E n \in call.arg.names :
                /\ parse_filename(n).ok
                /\ normalize_student_id(parse_filename(n).student)
                      = normalize_student_id(call.arg.student_id))
=============================================================================
